---- MODULE Spec2Model ----
(***************************************************************************)
(* Lamport one-time signatures (crates/lamport_ots): the XorShift64        *)
(* generator, key generation, signing and verification of                  *)
(* LamportOtsScheme, at the width of the source: 64-bit generator words,   *)
(* 32-byte elements, 512 key elements and 256 signature elements.          *)
(* With them: bench_sign of its main.rs, and the allocation tracking of    *)
(* crates/dilithium (track_alloc, track_dealloc, memory::reset_peak).      *)
(*                                                                         *)
(* A u64 is the tuple <<w0, w1, w2, w3>> of its four 16-bit limbs, least   *)
(* significant first.  A byte array is a sequence of integers 0..255; the  *)
(* element with Rust index i is at position i + 1.                         *)
(***************************************************************************)
EXTENDS Integers, Sequences, FiniteSets, TLC

\* ------------------------------------------------------------------------
\* Bounds of the checked scenarios
\* ------------------------------------------------------------------------
MaxMsgLen == 1
MaxSecretKeys == 2
MaxCalls == 3
MaxFillLen == 17
MaxIterations == 3
MaxAllocated == 3

\* ------------------------------------------------------------------------
\* Constants of lib.rs
\* ------------------------------------------------------------------------
HASH_SIZE == 32
BITS == HASH_SIZE * 8
SECRET_ELEMENTS == BITS * 2
SIGNATURE_ELEMENTS == BITS

\* ------------------------------------------------------------------------
\* u64 arithmetic
\* ------------------------------------------------------------------------
LIMB == 65536

ZERO_SEED == <<0, 0, 0, 0>>

\* 0x9e37_79b9_7f4a_7c15
GOLDEN_SEED == <<31765, 32586, 31161, 40503>>

RECURSIVE XorBits(_, _)
XorBits(a, b) ==
    IF a = 0 THEN b
    ELSE IF b = 0 THEN a
    ELSE ((a + b) % 2) + 2 * XorBits(a \div 2, b \div 2)

\* the exclusive or of two bytes, tabulated
XorByte == [a \in 0..255 |-> [b \in 0..255 |-> XorBits(a, b)]]

\* the exclusive or of two limbs
XorInt(a, b) ==
    XorByte[a % 256][b % 256] + 256 * XorByte[a \div 256][b \div 256]

Limb(x, k) == IF k >= 1 /\ k <= 4 THEN x[k] ELSE 0

\* x << n, truncated to 64 bits
Shl(x, n) ==
    LET q == n \div 16
        r == n % 16
        L(k) == ((Limb(x, k - q) * 2^r) % LIMB) + (Limb(x, k - q - 1) \div 2^(16 - r))
    IN  <<L(1), L(2), L(3), L(4)>>

\* x >> n
Shr(x, n) ==
    LET q == n \div 16
        r == n % 16
        L(k) == (Limb(x, k + q) \div 2^r) + ((Limb(x, k + q + 1) % 2^r) * 2^(16 - r))
    IN  <<L(1), L(2), L(3), L(4)>>

Xor(x, y) ==
    <<XorInt(x[1], y[1]), XorInt(x[2], y[2]), XorInt(x[3], y[3]), XorInt(x[4], y[4])>>

\* u64::to_be_bytes in the place of to_le_bytes
to_be_bytes(x) ==
    <<x[4] \div 256, x[4] % 256, x[3] \div 256, x[3] % 256,
      x[2] \div 256, x[2] % 256, x[1] \div 256, x[1] % 256>>

to_le_bytes(x) ==
    <<x[1] % 256, x[1] \div 256, x[2] % 256, x[2] \div 256,
      x[3] % 256, x[3] \div 256, x[4] % 256, x[4] \div 256>>

\* usize::max in the place of usize::min
Max(a, b) == IF a < b THEN b ELSE a

Min(a, b) == IF a < b THEN a ELSE b

\* ------------------------------------------------------------------------
\* XorShift64
\* ------------------------------------------------------------------------
\* XorShift64::new that keeps a zero seed as the state
XorShift64_new_raw(seed) == seed

\* XorShift64::new that remaps a zero seed to 1
XorShift64_new_one(seed) == IF seed = ZERO_SEED THEN <<1, 0, 0, 0>> ELSE seed

XorShift64_new(seed) == IF seed = ZERO_SEED THEN GOLDEN_SEED ELSE seed

\* next_u64 with the second shift to the left
next_u64_left(state) ==
    LET x1 == Xor(state, Shl(state, 13))
        x2 == Xor(x1, Shl(x1, 7))
        x3 == Xor(x2, Shl(x2, 17))
    IN  x3

\* the value returned is also the new state
next_u64(state) ==
    LET x1 == Xor(state, Shl(state, 13))
        x2 == Xor(x1, Shr(x1, 7))
        x3 == Xor(x2, Shl(x2, 17))
    IN  x3

\* fill_bytes on a buffer of n bytes: out is the filled buffer so far and
\* offset = Len(out)
RECURSIVE fill_loop(_, _, _)
fill_loop(state, out, n) ==
    IF Len(out) < n
    THEN LET x == next_u64(state)
             chunk == to_le_bytes(x)
             take == Min(n - Len(out), Len(chunk))
         IN  fill_loop(x, out \o SubSeq(chunk, 1, take), n)
    ELSE [state |-> state, out |-> out]

fill_bytes(state, n) == fill_loop(state, <<>>, n)

\* ------------------------------------------------------------------------
\* The digest function.  Sha256 belongs to the external sha2 crate and is not
\* part of the repository; what the crate relies on is a fixed function from
\* byte strings to HASH_SIZE bytes that does not collide on the inputs it is
\* given.  It is represented by an affine mixing of neighbouring input bytes
\* and the input length, which is a bijection on the inputs of any one
\* length up to HASH_SIZE bytes: the secret elements (HASH_SIZE bytes) and
\* the messages of the model (at most MaxMsgLen bytes).
\* ------------------------------------------------------------------------
Pad(data, j) == IF j >= 1 /\ j <= Len(data) THEN data[j] ELSE 0

Sha256(data) ==
    [j \in 1..HASH_SIZE |->
        (167 * Pad(data, j) + 29 * Pad(data, j - 1) + 3 * Len(data) + 89) % 256]

hash_bytes(data) == SubSeq(Sha256(data), 1, HASH_SIZE)

\* u64::from_le_bytes
from_le_bytes(bytes) ==
    <<bytes[1] + 256 * bytes[2], bytes[3] + 256 * bytes[4],
      bytes[5] + 256 * bytes[6], bytes[7] + 256 * bytes[8]>>

\* seed_from_str reading the eight bytes most significant first
seed_from_str_be(seed) ==
    LET digest == hash_bytes(seed)
        seed_bytes == SubSeq(digest, 1, 8)
    IN  from_le_bytes([k \in 1..8 |-> seed_bytes[9 - k]])

\* seed_from_str on the bytes of the string
seed_from_str(seed) ==
    LET digest == hash_bytes(seed)
        seed_bytes == SubSeq(digest, 1, 8)
    IN  from_le_bytes(seed_bytes)

\* ------------------------------------------------------------------------
\* Key generation, signing, verification
\* ------------------------------------------------------------------------
\* selected_secret_index without the digest bit
selected_secret_index_no_bit(digest, bit_index) == bit_index * 2

\* selected_secret_index reading the bits of a byte least significant first
selected_secret_index_lsb_first(digest, bit_index) ==
    LET byte == digest[(bit_index \div 8) + 1]
        bit == (byte \div 2^(bit_index % 8)) % 2
    IN  (bit_index * 2) + bit

\* selected_secret_index without the doubling of the position
selected_secret_index_unscaled(digest, bit_index) ==
    LET byte == digest[(bit_index \div 8) + 1]
        bit == (byte \div 2^(7 - (bit_index % 8))) % 2
    IN  bit_index + bit

selected_secret_index(digest, bit_index) ==
    LET byte == digest[(bit_index \div 8) + 1]
        bit == (byte \div 2^(7 - (bit_index % 8))) % 2
    IN  (bit_index * 2) + bit

\* sign_digest indexing the secret elements by the bit position itself
sign_digest_by_position(digest, secret_elements) ==
    [i \in 1..SIGNATURE_ELEMENTS |-> secret_elements[i]]

\* sign_digest that leaves out the last position
sign_digest_short(digest, secret_elements) ==
    [i \in 1..(SIGNATURE_ELEMENTS - 1) |->
        secret_elements[selected_secret_index(digest, i - 1) + 1]]

sign_digest(digest, secret_elements) ==
    [i \in 1..SIGNATURE_ELEMENTS |->
        secret_elements[selected_secret_index(digest, i - 1) + 1]]

\* The loop of keypair_with_rng, n iterations starting with generator state
\* rng: the sequence of the iterations, each with the secret drawn, its
\* public element and the generator state it leaves.  A run of n iterations
\* is a run of n \div 2 followed by a run of the rest on the state the
\* first run leaves.
RECURSIVE keypair_loop(_, _)
keypair_loop(rng, n) ==
    IF n = 0
    THEN <<>>
    ELSE IF n = 1
    THEN LET secret == fill_bytes(rng, HASH_SIZE)
         IN  <<[rng |-> secret.state,
                secret |-> secret.out,
                public |-> hash_bytes(secret.out)]>>
    ELSE LET a == keypair_loop(rng, n \div 2)
         IN  a \o keypair_loop(a[Len(a)].rng, n - (n \div 2))

\* key generation that stops one iteration short
keypair_with_rng_short(rng) ==
    LET iters == keypair_loop(rng, SECRET_ELEMENTS - 1)
    IN  [rng |-> iters[Len(iters)].rng,
         public_key |-> [elements |-> [i \in 1..Len(iters) |-> iters[i].public]],
         secret_key |-> [elements |-> [i \in 1..Len(iters) |-> iters[i].secret],
                         used |-> FALSE]]

\* key generation that hands out the draws as public elements and their
\* digests as secret elements
keypair_with_rng_swapped(rng) ==
    LET iters == keypair_loop(rng, SECRET_ELEMENTS)
    IN  [rng |-> iters[Len(iters)].rng,
         public_key |-> [elements |-> [i \in 1..Len(iters) |-> iters[i].secret]],
         secret_key |-> [elements |-> [i \in 1..Len(iters) |-> iters[i].public],
                         used |-> FALSE]]

keypair_with_rng(rng) ==
    LET iters == keypair_loop(rng, SECRET_ELEMENTS)
    IN  [rng |-> iters[Len(iters)].rng,
         public_key |-> [elements |-> [i \in 1..Len(iters) |-> iters[i].public]],
         secret_key |-> [elements |-> [i \in 1..Len(iters) |-> iters[i].secret],
                         used |-> FALSE]]

\* keypair_with_seed that hands the seed to the loop as the generator state
keypair_with_seed_as_state(seed) == keypair_with_rng(seed)

keypair_with_seed(seed) == keypair_with_rng(XorShift64_new(seed))

\* sign with the length check before the used check
sign_length_first(message, secret_key) ==
    IF Len(secret_key.elements) # SECRET_ELEMENTS
    THEN [result |-> <<"Err", "InvalidSecretKeyLength", SECRET_ELEMENTS,
                       Len(secret_key.elements)>>,
          secret_key |-> secret_key]
    ELSE IF secret_key.used
    THEN [result |-> <<"Err", "KeyAlreadyUsed">>, secret_key |-> secret_key]
    ELSE [result |-> <<"Ok", [elements |->
                sign_digest(hash_bytes(message), secret_key.elements)]>>,
          secret_key |-> [secret_key EXCEPT !.used = TRUE]]

\* sign whose InvalidSecretKeyLength return marks the key used
sign_marking_malformed(message, secret_key) ==
    IF secret_key.used
    THEN [result |-> <<"Err", "KeyAlreadyUsed">>, secret_key |-> secret_key]
    ELSE IF Len(secret_key.elements) # SECRET_ELEMENTS
    THEN [result |-> <<"Err", "InvalidSecretKeyLength", SECRET_ELEMENTS,
                       Len(secret_key.elements)>>,
          secret_key |-> [secret_key EXCEPT !.used = TRUE]]
    ELSE [result |-> <<"Ok", [elements |->
                sign_digest(hash_bytes(message), secret_key.elements)]>>,
          secret_key |-> [secret_key EXCEPT !.used = TRUE]]

\* sign whose KeyAlreadyUsed return clears the flag
sign_reset(message, secret_key) ==
    IF secret_key.used
    THEN [result |-> <<"Err", "KeyAlreadyUsed">>,
          secret_key |-> [secret_key EXCEPT !.used = FALSE]]
    ELSE IF Len(secret_key.elements) # SECRET_ELEMENTS
    THEN [result |-> <<"Err", "InvalidSecretKeyLength", SECRET_ELEMENTS,
                       Len(secret_key.elements)>>,
          secret_key |-> secret_key]
    ELSE [result |-> <<"Ok", [elements |->
                sign_digest(hash_bytes(message), secret_key.elements)]>>,
          secret_key |-> [secret_key EXCEPT !.used = TRUE]]

\* sign that zeroes the secret elements once the signature is made
sign_zeroizing(message, secret_key) ==
    IF secret_key.used
    THEN [result |-> <<"Err", "KeyAlreadyUsed">>, secret_key |-> secret_key]
    ELSE IF Len(secret_key.elements) # SECRET_ELEMENTS
    THEN [result |-> <<"Err", "InvalidSecretKeyLength", SECRET_ELEMENTS,
                       Len(secret_key.elements)>>,
          secret_key |-> secret_key]
    ELSE [result |-> <<"Ok", [elements |->
                sign_digest(hash_bytes(message), secret_key.elements)]>>,
          secret_key |-> [secret_key EXCEPT
                !.used = TRUE,
                !.elements = [i \in 1..SECRET_ELEMENTS |->
                                 [p \in 1..HASH_SIZE |-> 0]]]]

\* sign without the assignment secret_key.used = true
sign_unmarked(message, secret_key) ==
    IF secret_key.used
    THEN [result |-> <<"Err", "KeyAlreadyUsed">>, secret_key |-> secret_key]
    ELSE IF Len(secret_key.elements) # SECRET_ELEMENTS
    THEN [result |-> <<"Err", "InvalidSecretKeyLength", SECRET_ELEMENTS,
                       Len(secret_key.elements)>>,
          secret_key |-> secret_key]
    ELSE [result |-> <<"Ok", [elements |->
                sign_digest(hash_bytes(message), secret_key.elements)]>>,
          secret_key |-> secret_key]

\* LamportOtsScheme::sign on (message, &mut secret_key): the result and the
\* secret key as the call leaves it
sign(message, secret_key) ==
    IF secret_key.used
    THEN [result |-> <<"Err", "KeyAlreadyUsed">>, secret_key |-> secret_key]
    ELSE IF Len(secret_key.elements) # SECRET_ELEMENTS
    THEN [result |-> <<"Err", "InvalidSecretKeyLength", SECRET_ELEMENTS,
                       Len(secret_key.elements)>>,
          secret_key |-> secret_key]
    ELSE LET digest == hash_bytes(message)
             signature == sign_digest(digest, secret_key.elements)
         IN  [result |-> <<"Ok", [elements |-> signature]>>,
              secret_key |-> [secret_key EXCEPT !.used = TRUE]]

\* verify with the two length checks in the other order
\* verify that accepts at each position the digest of either element of the
\* pair
verify_either_of_pair(message, signature, public_key) ==
    IF Len(signature.elements) # SIGNATURE_ELEMENTS
    THEN <<"Err", "InvalidSignatureLength", SIGNATURE_ELEMENTS,
           Len(signature.elements)>>
    ELSE IF Len(public_key.elements) # SECRET_ELEMENTS
    THEN <<"Err", "InvalidPublicKeyLength", SECRET_ELEMENTS,
           Len(public_key.elements)>>
    ELSE IF \E i \in 0..(SIGNATURE_ELEMENTS - 1) :
                /\ hash_bytes(signature.elements[i + 1])
                        # public_key.elements[2 * i + 1]
                /\ hash_bytes(signature.elements[i + 1])
                        # public_key.elements[2 * i + 2]
         THEN <<"Ok", FALSE>>
         ELSE <<"Ok", TRUE>>

verify_public_key_first(message, signature, public_key) ==
    IF Len(public_key.elements) # SECRET_ELEMENTS
    THEN <<"Err", "InvalidPublicKeyLength", SECRET_ELEMENTS,
           Len(public_key.elements)>>
    ELSE IF Len(signature.elements) # SIGNATURE_ELEMENTS
    THEN <<"Err", "InvalidSignatureLength", SIGNATURE_ELEMENTS,
           Len(signature.elements)>>
    ELSE LET digest == hash_bytes(message)
         IN  IF \E i \in 0..(SIGNATURE_ELEMENTS - 1) :
                    hash_bytes(signature.elements[i + 1]) #
                        public_key.elements[selected_secret_index(digest, i) + 1]
             THEN <<"Ok", FALSE>>
             ELSE <<"Ok", TRUE>>

\* LamportOtsScheme::verify
verify(message, signature, public_key) ==
    IF Len(signature.elements) # SIGNATURE_ELEMENTS
    THEN <<"Err", "InvalidSignatureLength", SIGNATURE_ELEMENTS,
           Len(signature.elements)>>
    ELSE IF Len(public_key.elements) # SECRET_ELEMENTS
    THEN <<"Err", "InvalidPublicKeyLength", SECRET_ELEMENTS,
           Len(public_key.elements)>>
    ELSE LET digest == hash_bytes(message)
         IN  IF \E i \in 0..(SIGNATURE_ELEMENTS - 1) :
                    hash_bytes(signature.elements[i + 1]) #
                        public_key.elements[selected_secret_index(digest, i) + 1]
             THEN <<"Ok", FALSE>>
             ELSE <<"Ok", TRUE>>

max_signatures_per_key == 1

\* sizes with signature_bytes counted over SECRET_ELEMENTS
sizes_of_keys ==
    [public_key_bytes |-> SECRET_ELEMENTS * HASH_SIZE,
     secret_key_bytes |-> SECRET_ELEMENTS * HASH_SIZE,
     signature_bytes |-> SECRET_ELEMENTS * HASH_SIZE]

\* LamportOtsScheme::sizes
sizes ==
    [public_key_bytes |-> SECRET_ELEMENTS * HASH_SIZE,
     secret_key_bytes |-> SECRET_ELEMENTS * HASH_SIZE,
     signature_bytes |-> SIGNATURE_ELEMENTS * HASH_SIZE]

\* LamportPublicKey::byte_len, LamportSecretKey::byte_len,
\* LamportSignature::byte_len
byte_len(object) == Len(object.elements) * HASH_SIZE

\* ------------------------------------------------------------------------
\* Inputs
\* ------------------------------------------------------------------------
Seeds == {ZERO_SEED, <<42, 0, 0, 0>>}

\* the generator state four draws after XorShift64::new(42): as a seed it
\* yields the stream of seed 42 moved on by one element
SHIFTED_SEED == next_u64(next_u64(next_u64(next_u64(<<42, 0, 0, 0>>))))

KeygenSeeds == Seeds \cup {GOLDEN_SEED, SHIFTED_SEED}

\* string labels, as their bytes: "", "a", "ab", "ba" and
\* "lamport-main-sign-keygen"
Labels ==
    {<<>>, <<97>>, <<97, 98>>, <<98, 97>>,
     <<108, 97, 109, 112, 111, 114, 116, 45, 109, 97, 105, 110, 45,
       115, 105, 103, 110, 45, 107, 101, 121, 103, 101, 110>>}

\* seeds a generator is followed from call by call: 0, 1, the top bit alone,
\* all bits, 42
GeneratorSeeds ==
    {ZERO_SEED, <<1, 0, 0, 0>>, <<0, 0, 0, 32768>>,
     <<65535, 65535, 65535, 65535>>, <<42, 0, 0, 0>>}

\* Vec lengths a LamportSignature and a LamportPublicKey are built with
SignatureLens ==
    {0, SIGNATURE_ELEMENTS - 1, SIGNATURE_ELEMENTS, SIGNATURE_ELEMENTS + 1,
     SECRET_ELEMENTS}

PublicKeyLens ==
    {0, SIGNATURE_ELEMENTS, SECRET_ELEMENTS - 1, SECRET_ELEMENTS,
     SECRET_ELEMENTS + 1}

\* Vec lengths a malformed LamportSecretKey is built with
SecretKeyLens ==
    {0, SIGNATURE_ELEMENTS, SECRET_ELEMENTS - 1, SECRET_ELEMENTS + 1}

MsgBytes == {97}

RECURSIVE SeqsUpTo(_)
SeqsUpTo(n) ==
    IF n = 0 THEN {<<>>}
    ELSE LET shorter == SeqsUpTo(n - 1)
         IN  shorter \cup {Append(m, b) : m \in {x \in shorter : Len(x) = n - 1}, b \in MsgBytes}

Messages == SeqsUpTo(MaxMsgLen)

\* ------------------------------------------------------------------------
\* State: the objects a caller of the crate holds
\* ------------------------------------------------------------------------
VARIABLES
    rng,          \* the caller's XorShift64, <<>> before XorShift64::new: its
                  \* state, its seed, the keypairs drawn from it and the
                  \* next_u64 and fill_bytes calls the caller made on it
    public_keys,  \* LamportPublicKey objects, one per keypair generated
    secret_keys,  \* LamportSecretKey objects: generated ones and clones
    signatures,   \* LamportSignature objects returned by sign
    last,         \* the latest call and what it returned
    frame,        \* the locals of the call in progress when a call is
                  \* followed statement by statement, <<>> otherwise
    ALLOCATED,      \* the three AtomicUsize statics of the allocation
    PEAK_ALLOCATED, \* tracking of crates/dilithium
    BASELINE,
    tracking      \* the calls of track_alloc, track_dealloc and reset_peak
                  \* in progress, and what has completed since the last
                  \* reset_peak

heapvars == <<ALLOCATED, PEAK_ALLOCATED, BASELINE, tracking>>

vars == <<rng, public_keys, secret_keys, signatures, last, frame, heapvars>>

\* the threads that allocate and free, and what each holds while idle: no
\* block, and no locals of track_alloc
AllocThreads == {1, 2}

IdleAlloc ==
    [pc |-> "idle", held |-> 0, current |-> 0, baseline |-> 0,
     relative_current |-> 0, peak |-> 0]

\* No call in progress.  expected is the largest value of (bytes allocated
\* minus recorded, floored at 0) over the track_alloc calls completed since
\* the last reset_peak completed, recorded being the baseline that
\* reset_peak stored (0 before the first).
TrackingInit ==
    [alloc |-> [t \in AllocThreads |-> IdleAlloc],
     reset |-> [pc |-> "idle", current |-> 0],
     expected |-> 0, recorded |-> 0]

\* Fields beside those of the Rust structs record where an object comes
\* from: seed and nth (the keypair is the nth drawn from a generator made by
\* XorShift64::new(seed)), kp (the keypair whose secret elements it holds),
\* msg and sk (the message signed and the secret key object that signed).
\* In last, res of a successful sign is <<"Ok", j>> for the new signatures[j].

Init ==
    /\ rng = <<>>
    /\ public_keys = <<>>
    /\ secret_keys = <<>>
    /\ signatures = <<>>
    /\ last = [op |-> "init"]
    /\ frame = <<>>
    /\ ALLOCATED = 0
    /\ PEAK_ALLOCATED = 0
    /\ BASELINE = 0
    /\ tracking = TrackingInit

\* let mut rng = XorShift64::new(seed)
NewRng(seed, cap) ==
    /\ Len(public_keys) < cap
    /\ rng' = <<[state |-> XorShift64_new(seed), seed |-> seed, drawn |-> 0,
               calls |-> 0]>>
    /\ last' = [op |-> "new"]
    /\ UNCHANGED <<heapvars, public_keys, secret_keys, signatures, frame>>

AddKeypair(k, seed, nth) ==
    /\ public_keys' = Append(public_keys,
            [elements |-> k.public_key.elements, seed |-> seed, nth |-> nth])
    /\ secret_keys' = Append(secret_keys,
            [elements |-> k.secret_key.elements, used |-> k.secret_key.used,
             kp |-> Len(public_keys) + 1])

\* the keypair k drawn from the caller's generator: the pair is returned
\* and the generator is left in the state the loop ended in
Drawn(k) ==
    /\ AddKeypair(k, rng[1].seed, rng[1].drawn)
    /\ rng' = <<[rng[1] EXCEPT !.state = k.rng, !.drawn = @ + 1]>>

\* seed_from_str(label)
SeedFromStr(label) ==
    /\ last' = [op |-> "seed_from_str", label |-> label,
                seed |-> seed_from_str(label)]
    /\ UNCHANGED <<heapvars, rng, public_keys, secret_keys, signatures, frame>>

\* rng.next_u64()
NextU64 ==
    /\ rng # <<>>
    /\ rng[1].calls < MaxCalls
    /\ rng' = <<[rng[1] EXCEPT !.state = next_u64(@), !.calls = @ + 1]>>
    /\ last' = [op |-> "next_u64", before |-> rng[1].state,
                value |-> next_u64(rng[1].state)]
    /\ UNCHANGED <<heapvars, public_keys, secret_keys, signatures, frame>>

\* rng.fill_bytes(&mut out) on a buffer of n bytes
FillBytes(n) ==
    /\ rng # <<>>
    /\ rng[1].calls < MaxCalls
    /\ rng' = <<[rng[1] EXCEPT !.state = fill_bytes(@, n).state,
                               !.calls = @ + 1]>>
    /\ last' = [op |-> "fill_bytes", before |-> rng[1].state, n |-> n,
                out |-> fill_bytes(rng[1].state, n).out]
    /\ UNCHANGED <<heapvars, public_keys, secret_keys, signatures, frame>>

\* scheme.keypair_with_rng(&mut rng)
KeypairWithRng(cap) ==
    /\ Len(public_keys) < cap
    /\ rng # <<>>
    /\ Drawn(keypair_with_rng(rng[1].state))
    /\ last' = [op |-> "keypair_with_rng"]
    /\ UNCHANGED <<heapvars, signatures, frame>>

\* scheme.keypair_with_seed(seed)
KeypairWithSeed(seed, cap) ==
    /\ Len(public_keys) < cap
    /\ AddKeypair(keypair_with_seed(seed), seed, 0)
    /\ last' = [op |-> "keypair_with_seed"]
    /\ UNCHANGED <<heapvars, rng, signatures, frame>>

\* scheme.keypair(): default_seed() mixes the clock and the process id and
\* can be any u64
Keypair(cap) ==
    /\ Len(public_keys) < cap
    /\ \E default_seed \in Seeds :
            AddKeypair(keypair_with_rng(XorShift64_new(default_seed)), default_seed, 0)
    /\ last' = [op |-> "keypair"]
    /\ UNCHANGED <<heapvars, rng, signatures, frame>>

\* secret_keys[i].clone()
CloneSecretKey(i) ==
    /\ Len(secret_keys) < MaxSecretKeys
    /\ secret_keys' = Append(secret_keys, secret_keys[i])
    /\ last' = [op |-> "clone", sk |-> i]
    /\ UNCHANGED <<heapvars, rng, public_keys, signatures, frame>>

\* scheme.sign(&message, &mut secret_keys[i])
Sign(message, i) ==
    LET r == sign(message, secret_keys[i])
        ok == r.result[1] = "Ok"
    IN  /\ secret_keys' = [secret_keys EXCEPT ![i] = r.secret_key]
        /\ signatures' =
              IF ok
              THEN Append(signatures,
                      [elements |-> r.result[2].elements, msg |-> message,
                       sk |-> i, kp |-> secret_keys[i].kp])
              ELSE signatures
        /\ last' = [op |-> "sign", msg |-> message, sk |-> i,
                    used_before |-> secret_keys[i].used,
                    res |-> IF ok THEN <<"Ok", Len(signatures) + 1>> ELSE r.result]
        /\ UNCHANGED <<heapvars, rng, public_keys, frame>>

\* a verify that marks every secret key used
VerifyConsuming(message, j, k) ==
    /\ last' = [op |-> "verify", msg |-> message, sig |-> j, pk |-> k,
                res |-> verify(message, signatures[j], public_keys[k])]
    /\ secret_keys' = [i \in 1..Len(secret_keys) |->
                          [secret_keys[i] EXCEPT !.used = TRUE]]
    /\ UNCHANGED <<heapvars, rng, public_keys, signatures, frame>>

\* scheme.verify(&message, &signatures[j], &public_keys[k])
Verify(message, j, k) ==
    /\ last' = [op |-> "verify", msg |-> message, sig |-> j, pk |-> k,
                res |-> verify(message, signatures[j], public_keys[k])]
    /\ UNCHANGED <<heapvars, rng, public_keys, secret_keys, signatures, frame>>

\* [0_u8; HASH_SIZE]
ZERO_ELEMENT == [i \in 1..HASH_SIZE |-> 0]

\* a Vec<[u8; HASH_SIZE]> of n elements: the first n of elements, padded
\* with zeroed elements when n exceeds them
WithLen(elements, n) ==
    IF n <= Len(elements)
    THEN SubSeq(elements, 1, n)
    ELSE elements \o [i \in 1..(n - Len(elements)) |-> ZERO_ELEMENT]

\* scheme.verify(&message, &signature, &public_key) on a LamportSignature
\* and a LamportPublicKey whose Vecs have any length: the elements of
\* signatures[j] and public_keys[k] cut or padded to sig_len and pk_len
VerifyAnyLength(message, j, k, sig_len, pk_len) ==
    LET signature == [elements |-> WithLen(signatures[j].elements, sig_len)]
        public_key == [elements |-> WithLen(public_keys[k].elements, pk_len)]
    IN  /\ last' = [op |-> "verify_any_length", msg |-> message,
                    sig |-> j, pk |-> k,
                    sig_len |-> Len(signature.elements),
                    pk_len |-> Len(public_key.elements),
                    res |-> verify(message, signature, public_key)]
        /\ UNCHANGED <<heapvars, rng, public_keys, secret_keys, signatures, frame>>

\* positions at which one element of a signature is replaced: the first,
\* one in the middle, the last
TamperPositions == {1, SIGNATURE_ELEMENTS \div 2, SIGNATURE_ELEMENTS}

\* what the element is replaced by: a zeroed element, the element with the
\* low bit of its first byte flipped, the element of the next position of
\* the same signature, the secret element of the same pair that the
\* signature does not reveal
TamperKinds == {"zero", "bit", "neighbour", "pair"}

TamperValue(j, position, kind) ==
    LET elements == signatures[j].elements
        own == elements[position]
        selected == selected_secret_index(hash_bytes(signatures[j].msg),
                                          position - 1)
        other == IF selected % 2 = 0 THEN selected + 1 ELSE selected - 1
    IN  CASE kind = "zero" -> ZERO_ELEMENT
          [] kind = "bit" ->
                [own EXCEPT ![1] = IF @ % 2 = 0 THEN @ + 1 ELSE @ - 1]
          [] kind = "neighbour" -> elements[(position % Len(elements)) + 1]
          [] kind = "pair" ->
                secret_keys[signatures[j].sk].elements[other + 1]

\* scheme.verify on the message signed, the public key of the signer and
\* signatures[j] with the element at position replaced, lengths unchanged
VerifyTampered(j, position, kind) ==
    LET value == TamperValue(j, position, kind)
        tampered == [elements |->
                        [signatures[j].elements EXCEPT ![position] = value]]
    IN  /\ last' = [op |-> "verify_tampered", sig |-> j, position |-> position,
                    kind |-> kind,
                    differs |-> value # signatures[j].elements[position],
                    sig_len |-> Len(tampered.elements),
                    res |-> verify(signatures[j].msg, tampered,
                                   public_keys[signatures[j].kp])]
        /\ UNCHANGED <<heapvars, rng, public_keys, secret_keys, signatures, frame>>

\* LamportSecretKey { elements, used } built inside the crate with a Vec of
\* sk_len elements: the elements of secret_keys[i] cut or padded, and its
\* used flag
SecretKeyWithLen(i, sk_len) ==
    /\ Len(secret_keys) < MaxSecretKeys
    /\ secret_keys' = Append(secret_keys,
            [secret_keys[i] EXCEPT !.elements = WithLen(@, sk_len)])
    /\ last' = [op |-> "secret_key_with_len", sk |-> i]
    /\ UNCHANGED <<heapvars, rng, public_keys, signatures, frame>>

\* ------------------------------------------------------------------------
\* keypair_with_seed followed statement by statement.  frame holds the
\* locals of keypair_with_rng and, while it runs, of fill_bytes: pc is the
\* loop about to be tested, i the iterations of the for loop completed,
\* secret the array being filled and offset the local of fill_bytes.  A
\* slice index out of range stops the call with pc = "panic".
\* ------------------------------------------------------------------------

\* let mut rng = XorShift64::new(seed); the two Vec::with_capacity
KeypairWithSeedCall(seed) ==
    /\ frame = <<>>
    /\ Len(public_keys) < 1
    /\ frame' = [fn |-> "keypair_with_rng", pc |-> "for", seed |-> seed,
                 rng |-> XorShift64_new(seed), i |-> 0,
                 secret_elements |-> <<>>, public_elements |-> <<>>,
                 secret |-> <<>>, offset |-> 0]
    /\ last' = [op |-> "running"]
    /\ UNCHANGED <<heapvars, rng, public_keys, secret_keys, signatures>>

\* for _ in 0..SECRET_ELEMENTS: the next iteration starts with
\* let mut secret = [0_u8; HASH_SIZE] and the call rng.fill_bytes(&mut secret)
ForNext ==
    /\ frame # <<>>
    /\ frame.fn = "keypair_with_rng"
    /\ frame.pc = "for"
    /\ frame.i < SECRET_ELEMENTS
    /\ frame' = [frame EXCEPT !.secret = ZERO_ELEMENT, !.offset = 0,
                              !.pc = "while"]
    /\ UNCHANGED <<heapvars, rng, public_keys, secret_keys, signatures, last>>

\* one iteration of the while loop of fill_bytes
FillBytesStep ==
    /\ frame # <<>>
    /\ frame.fn = "keypair_with_rng"
    /\ frame.pc = "while"
    /\ frame.offset < Len(frame.secret)
    /\ LET x == next_u64(frame.rng)
           chunk == to_le_bytes(x)
           take == Min(Len(frame.secret) - frame.offset, Len(chunk))
       IN  frame' =
              IF frame.offset + take > Len(frame.secret) \/ take > Len(chunk)
              THEN [frame EXCEPT !.rng = x, !.pc = "panic"]
              ELSE [frame EXCEPT
                      !.rng = x,
                      !.secret = SubSeq(@, 1, frame.offset)
                                   \o SubSeq(chunk, 1, take)
                                   \o SubSeq(@, frame.offset + take + 1, Len(@)),
                      !.offset = @ + take]
    /\ UNCHANGED <<heapvars, rng, public_keys, secret_keys, signatures, last>>

\* fill_bytes returns; public_elements.push(hash_bytes(&secret));
\* secret_elements.push(secret)
ForPush ==
    /\ frame # <<>>
    /\ frame.fn = "keypair_with_rng"
    /\ frame.pc = "while"
    /\ ~(frame.offset < Len(frame.secret))
    /\ frame' = [frame EXCEPT
                    !.public_elements = Append(@, hash_bytes(frame.secret)),
                    !.secret_elements = Append(@, frame.secret),
                    !.i = @ + 1,
                    !.pc = "for"]
    /\ UNCHANGED <<heapvars, rng, public_keys, secret_keys, signatures, last>>

\* the for loop is over: the pair of LamportPublicKey and LamportSecretKey
\* is returned
KeypairReturn ==
    /\ frame # <<>>
    /\ frame.fn = "keypair_with_rng"
    /\ frame.pc = "for"
    /\ ~(frame.i < SECRET_ELEMENTS)
    /\ AddKeypair([public_key |-> [elements |-> frame.public_elements],
                   secret_key |-> [elements |-> frame.secret_elements,
                                   used |-> FALSE]],
                  frame.seed, 0)
    /\ last' = [op |-> "keypair_with_seed", iterations |-> frame.i]
    /\ frame' = <<>>
    /\ UNCHANGED <<heapvars, rng, signatures>>

\* ------------------------------------------------------------------------
\* sign and verify followed statement by statement.  frame holds the
\* arguments and locals of the call and two counts of the work done so
\* far: hashed, the calls of hash_bytes, and read, the elements of a key or
\* signature read.  An index out of range stops the call with
\* pc = "panic".
\* ------------------------------------------------------------------------

\* scheme.sign(&message, &mut secret_keys[i])
SignCall(message, i) ==
    /\ frame = <<>>
    /\ frame' = [fn |-> "sign", pc |-> "check_used", message |-> message,
                 sk |-> i, digest |-> <<>>, signature |-> <<>>,
                 hashed |-> 0, read |-> 0]
    /\ last' = [op |-> "running"]
    /\ UNCHANGED <<heapvars, rng, public_keys, secret_keys, signatures>>

\* sign returns an error
SignReturnErr(result) ==
    /\ last' = [op |-> "sign", msg |-> frame.message, sk |-> frame.sk,
                used_before |-> secret_keys[frame.sk].used, res |-> result,
                hashed |-> frame.hashed, read |-> frame.read]
    /\ frame' = <<>>
    /\ UNCHANGED <<heapvars, rng, public_keys, secret_keys, signatures>>

\* the used check made after the digest of the message is computed
SignCheckUsed_after_digest ==
    /\ frame # <<>>
    /\ frame.fn = "sign"
    /\ frame.pc = "check_used"
    /\ IF secret_keys[frame.sk].used
       THEN /\ last' = [op |-> "sign", msg |-> frame.message, sk |-> frame.sk,
                        used_before |-> secret_keys[frame.sk].used,
                        res |-> <<"Err", "KeyAlreadyUsed">>,
                        hashed |-> frame.hashed + 1, read |-> frame.read]
            /\ frame' = <<>>
            /\ UNCHANGED <<heapvars, rng, public_keys, secret_keys, signatures>>
       ELSE /\ frame' = [frame EXCEPT !.pc = "check_len",
                                      !.digest = hash_bytes(frame.message),
                                      !.hashed = @ + 1]
            /\ UNCHANGED <<heapvars, rng, public_keys, secret_keys, signatures, last>>

\* if secret_key.used { return Err(LamportError::KeyAlreadyUsed); }
SignCheckUsed ==
    /\ frame # <<>>
    /\ frame.fn = "sign"
    /\ frame.pc = "check_used"
    /\ IF secret_keys[frame.sk].used
       THEN SignReturnErr(<<"Err", "KeyAlreadyUsed">>)
       ELSE /\ frame' = [frame EXCEPT !.pc = "check_len"]
            /\ UNCHANGED <<heapvars, rng, public_keys, secret_keys, signatures, last>>

\* if secret_key.elements.len() != SECRET_ELEMENTS { return Err(...); }
SignCheckLen ==
    /\ frame # <<>>
    /\ frame.fn = "sign"
    /\ frame.pc = "check_len"
    /\ IF Len(secret_keys[frame.sk].elements) # SECRET_ELEMENTS
       THEN SignReturnErr(<<"Err", "InvalidSecretKeyLength", SECRET_ELEMENTS,
                            Len(secret_keys[frame.sk].elements)>>)
       ELSE /\ frame' = [frame EXCEPT !.pc = "digest"]
            /\ UNCHANGED <<heapvars, rng, public_keys, secret_keys, signatures, last>>

\* let digest = hash_bytes(message)
SignDigest ==
    /\ frame # <<>>
    /\ frame.fn = "sign"
    /\ frame.pc = "digest"
    /\ frame' = [frame EXCEPT !.digest = hash_bytes(frame.message),
                              !.hashed = @ + 1, !.pc = "sign_digest"]
    /\ UNCHANGED <<heapvars, rng, public_keys, secret_keys, signatures, last>>

\* let signature = sign_digest(&digest, &secret_key.elements): one element
\* read at each of the SIGNATURE_ELEMENTS positions
SignSignDigest ==
    /\ frame # <<>>
    /\ frame.fn = "sign"
    /\ frame.pc = "sign_digest"
    /\ frame' =
          IF \E i \in 0..(SIGNATURE_ELEMENTS - 1) :
                selected_secret_index(frame.digest, i)
                    >= Len(secret_keys[frame.sk].elements)
          THEN [frame EXCEPT !.pc = "panic"]
          ELSE [frame EXCEPT
                  !.signature = sign_digest(frame.digest,
                                            secret_keys[frame.sk].elements),
                  !.read = @ + SIGNATURE_ELEMENTS,
                  !.pc = "set_used"]
    /\ UNCHANGED <<heapvars, rng, public_keys, secret_keys, signatures, last>>

\* secret_key.used = true; Ok(LamportSignature { elements: signature })
SignReturnOk ==
    /\ frame # <<>>
    /\ frame.fn = "sign"
    /\ frame.pc = "set_used"
    /\ secret_keys' = [secret_keys EXCEPT ![frame.sk].used = TRUE]
    /\ signatures' = Append(signatures,
            [elements |-> frame.signature, msg |-> frame.message,
             sk |-> frame.sk, kp |-> secret_keys[frame.sk].kp])
    /\ last' = [op |-> "sign", msg |-> frame.message, sk |-> frame.sk,
                used_before |-> secret_keys[frame.sk].used,
                res |-> <<"Ok", Len(signatures) + 1>>,
                hashed |-> frame.hashed, read |-> frame.read]
    /\ frame' = <<>>
    /\ UNCHANGED <<heapvars, rng, public_keys>>

\* the LamportSignature a verify call is given: the elements of
\* signatures[j] cut or padded to sig_len, the element at position forged
\* (counted from 1, 0 for none) replaced by a zeroed one
SignatureArgument(j, sig_len, forged) ==
    LET elements == WithLen(signatures[j].elements, sig_len)
    IN  [elements |-> IF forged >= 1 /\ forged <= Len(elements)
                      THEN [elements EXCEPT ![forged] = ZERO_ELEMENT]
                      ELSE elements]

\* the LamportPublicKey a verify call is given
PublicKeyArgument(k, pk_len) ==
    [elements |-> WithLen(public_keys[k].elements, pk_len)]

\* scheme.verify(&message, &signature, &public_key)
VerifyCall(message, j, k, sig_len, pk_len, forged) ==
    /\ frame = <<>>
    /\ frame' = [fn |-> "verify", pc |-> "check_signature_len",
                 message |-> message, sig |-> j, pk |-> k,
                 sig_len |-> sig_len, pk_len |-> pk_len, forged |-> forged,
                 digest |-> <<>>, i |-> 0, hashed |-> 0, read |-> 0]
    /\ last' = [op |-> "running"]
    /\ UNCHANGED <<heapvars, rng, public_keys, secret_keys, signatures>>

\* verify returns result
VerifyReturn(result, hashed, read, examined) ==
    /\ last' = [op |-> "verify", msg |-> frame.message, sig |-> frame.sig,
                pk |-> frame.pk, sig_len |-> frame.sig_len,
                pk_len |-> frame.pk_len, forged |-> frame.forged,
                res |-> result, hashed |-> hashed, read |-> read,
                examined |-> examined]
    /\ frame' = <<>>
    /\ UNCHANGED <<heapvars, rng, public_keys, secret_keys, signatures>>

\* if signature.elements.len() != SIGNATURE_ELEMENTS { return Err(...); }
VerifyCheckSignatureLen ==
    /\ frame # <<>>
    /\ frame.fn = "verify"
    /\ frame.pc = "check_signature_len"
    /\ LET signature == SignatureArgument(frame.sig, frame.sig_len, frame.forged)
       IN  IF Len(signature.elements) # SIGNATURE_ELEMENTS
           THEN VerifyReturn(<<"Err", "InvalidSignatureLength",
                               SIGNATURE_ELEMENTS, Len(signature.elements)>>,
                             frame.hashed, frame.read, frame.i)
           ELSE /\ frame' = [frame EXCEPT !.pc = "check_public_key_len"]
                /\ UNCHANGED <<heapvars, rng, public_keys, secret_keys, signatures, last>>

\* if public_key.elements.len() != SECRET_ELEMENTS { return Err(...); }
VerifyCheckPublicKeyLen ==
    /\ frame # <<>>
    /\ frame.fn = "verify"
    /\ frame.pc = "check_public_key_len"
    /\ LET public_key == PublicKeyArgument(frame.pk, frame.pk_len)
       IN  IF Len(public_key.elements) # SECRET_ELEMENTS
           THEN VerifyReturn(<<"Err", "InvalidPublicKeyLength",
                               SECRET_ELEMENTS, Len(public_key.elements)>>,
                             frame.hashed, frame.read, frame.i)
           ELSE /\ frame' = [frame EXCEPT !.pc = "digest"]
                /\ UNCHANGED <<heapvars, rng, public_keys, secret_keys, signatures, last>>

\* let digest = hash_bytes(message)
VerifyDigest ==
    /\ frame # <<>>
    /\ frame.fn = "verify"
    /\ frame.pc = "digest"
    /\ frame' = [frame EXCEPT !.digest = hash_bytes(frame.message),
                              !.hashed = @ + 1, !.pc = "for"]
    /\ UNCHANGED <<heapvars, rng, public_keys, secret_keys, signatures, last>>

\* a for loop that skips the comparison of the first position
VerifyForNext_skipping_first ==
    /\ frame # <<>>
    /\ frame.fn = "verify"
    /\ frame.pc = "for"
    /\ frame.i < SIGNATURE_ELEMENTS
    /\ LET signature == SignatureArgument(frame.sig, frame.sig_len, frame.forged)
           public_key == PublicKeyArgument(frame.pk, frame.pk_len)
           idx == selected_secret_index(frame.digest, frame.i)
       IN  IF frame.i > 0
                /\ hash_bytes(signature.elements[frame.i + 1])
                        # public_key.elements[idx + 1]
           THEN VerifyReturn(<<"Ok", FALSE>>, frame.hashed + 1,
                             frame.read + 2, frame.i + 1)
           ELSE /\ frame' = [frame EXCEPT !.i = @ + 1, !.hashed = @ + 1,
                                          !.read = @ + 2]
                /\ UNCHANGED <<heapvars, rng, public_keys, secret_keys, signatures, last>>

\* for i in 0..SIGNATURE_ELEMENTS: one iteration, which returns Ok(false)
\* when hash_bytes(&signature.elements[i]) != public_key.elements[idx]
VerifyForNext ==
    /\ frame # <<>>
    /\ frame.fn = "verify"
    /\ frame.pc = "for"
    /\ frame.i < SIGNATURE_ELEMENTS
    /\ LET signature == SignatureArgument(frame.sig, frame.sig_len, frame.forged)
           public_key == PublicKeyArgument(frame.pk, frame.pk_len)
           idx == selected_secret_index(frame.digest, frame.i)
       IN  IF frame.i >= Len(signature.elements)
                \/ idx >= Len(public_key.elements)
           THEN /\ frame' = [frame EXCEPT !.pc = "panic"]
                /\ UNCHANGED <<heapvars, rng, public_keys, secret_keys, signatures, last>>
           ELSE IF hash_bytes(signature.elements[frame.i + 1])
                        # public_key.elements[idx + 1]
           THEN VerifyReturn(<<"Ok", FALSE>>, frame.hashed + 1,
                             frame.read + 2, frame.i + 1)
           ELSE /\ frame' = [frame EXCEPT !.i = @ + 1, !.hashed = @ + 1,
                                          !.read = @ + 2]
                /\ UNCHANGED <<heapvars, rng, public_keys, secret_keys, signatures, last>>

\* the for loop is over: Ok(true)
VerifyReturnTrue ==
    /\ frame # <<>>
    /\ frame.fn = "verify"
    /\ frame.pc = "for"
    /\ ~(frame.i < SIGNATURE_ELEMENTS)
    /\ VerifyReturn(<<"Ok", TRUE>>, frame.hashed, frame.read, frame.i)

\* ------------------------------------------------------------------------
\* sign called from two threads, statement by statement.  frame holds the
\* call of each thread: its position, arguments, locals and result.  The
\* parameter secret_key: &mut LamportSecretKey is an exclusive borrow: a
\* thread can be inside sign on a key only while no other thread is inside
\* sign on that key, whatever guard the caller shares the key through.
\* ------------------------------------------------------------------------
Threads == {1, 2}

IdleCall ==
    [pc |-> "idle", message |-> <<>>, sk |-> 0, digest |-> <<>>,
     signature |-> <<>>, result |-> <<>>]

Calls == IF frame = <<>> THEN [t \in Threads |-> IdleCall] ELSE frame.calls

\* thread t is inside sign
Running(t) == Calls[t].pc \notin {"idle", "returned"}

\* thread t goes from pc to the call c
ThreadStep(t, pc, c) ==
    /\ Calls[t].pc = pc
    /\ frame' = [fn |-> "sign_threads", calls |-> [Calls EXCEPT ![t] = c]]

\* a call of sign that takes the key without the exclusive borrow
ThreadSignCall_shared(t, message, i) ==
    /\ ~Running(t)
    /\ frame' = [fn |-> "sign_threads",
                 calls |-> [Calls EXCEPT ![t] =
                    [IdleCall EXCEPT !.pc = "check_used",
                                     !.message = message, !.sk = i]]]
    /\ UNCHANGED <<heapvars, rng, public_keys, secret_keys, signatures, last>>

\* thread t calls scheme.sign(&message, &mut secret_keys[i])
ThreadSignCall(t, message, i) ==
    /\ ~Running(t)
    /\ \A u \in Threads \ {t} : ~(Running(u) /\ Calls[u].sk = i)
    /\ frame' = [fn |-> "sign_threads",
                 calls |-> [Calls EXCEPT ![t] =
                    [IdleCall EXCEPT !.pc = "check_used",
                                     !.message = message, !.sk = i]]]
    /\ UNCHANGED <<heapvars, rng, public_keys, secret_keys, signatures, last>>

\* if secret_key.used { return Err(LamportError::KeyAlreadyUsed); }
ThreadSignCheckUsed(t) ==
    /\ ThreadStep(t, "check_used",
          IF secret_keys[Calls[t].sk].used
          THEN [Calls[t] EXCEPT !.pc = "returned",
                                !.result = <<"Err", "KeyAlreadyUsed">>]
          ELSE [Calls[t] EXCEPT !.pc = "check_len"])
    /\ UNCHANGED <<heapvars, rng, public_keys, secret_keys, signatures, last>>

\* if secret_key.elements.len() != SECRET_ELEMENTS { return Err(...); }
ThreadSignCheckLen(t) ==
    /\ ThreadStep(t, "check_len",
          IF Len(secret_keys[Calls[t].sk].elements) # SECRET_ELEMENTS
          THEN [Calls[t] EXCEPT
                  !.pc = "returned",
                  !.result = <<"Err", "InvalidSecretKeyLength", SECRET_ELEMENTS,
                               Len(secret_keys[Calls[t].sk].elements)>>]
          ELSE [Calls[t] EXCEPT !.pc = "digest"])
    /\ UNCHANGED <<heapvars, rng, public_keys, secret_keys, signatures, last>>

\* let digest = hash_bytes(message)
ThreadSignDigest(t) ==
    /\ ThreadStep(t, "digest",
          [Calls[t] EXCEPT !.digest = hash_bytes(Calls[t].message),
                           !.pc = "sign_digest"])
    /\ UNCHANGED <<heapvars, rng, public_keys, secret_keys, signatures, last>>

\* let signature = sign_digest(&digest, &secret_key.elements)
ThreadSignSignDigest(t) ==
    /\ ThreadStep(t, "sign_digest",
          [Calls[t] EXCEPT
              !.signature = sign_digest(Calls[t].digest,
                                        secret_keys[Calls[t].sk].elements),
              !.pc = "set_used"])
    /\ UNCHANGED <<heapvars, rng, public_keys, secret_keys, signatures, last>>

\* secret_key.used = true; Ok(LamportSignature { elements: signature })
ThreadSignReturnOk(t) ==
    /\ ThreadStep(t, "set_used",
          [Calls[t] EXCEPT !.pc = "returned",
                           !.result = <<"Ok", Len(signatures) + 1>>])
    /\ secret_keys' = [secret_keys EXCEPT ![Calls[t].sk].used = TRUE]
    /\ signatures' = Append(signatures,
            [elements |-> Calls[t].signature, msg |-> Calls[t].message,
             sk |-> Calls[t].sk, kp |-> secret_keys[Calls[t].sk].kp])
    /\ UNCHANGED <<heapvars, rng, public_keys, last>>

\* ------------------------------------------------------------------------
\* bench_sign of main.rs, iteration by iteration.  frame holds its
\* arguments and locals: the generator, the index next of the key the sign
\* loop is at, the results of the sign calls made and the result returned.
\* The Vec secret_keys of bench_sign is the variable secret_keys; the public
\* keys, which bench_sign drops, are kept beside them.
\* ------------------------------------------------------------------------

\* the label bench_sign gives bench_rng, after format!("lamport-main-{label}")
SIGN_KEYGEN_LABEL ==
    <<108, 97, 109, 112, 111, 114, 116, 45, 109, 97, 105, 110, 45,
      115, 105, 103, 110, 45, 107, 101, 121, 103, 101, 110>>

\* the seeds bench_rng can make the generator from: that of the label when
\* deterministic, any u64 otherwise
BenchSeeds == {seed_from_str(SIGN_KEYGEN_LABEL)} \cup Seeds

\* bench_sign(scheme, &message, iterations, deterministic):
\* let mut rng = bench_rng("sign-keygen", deterministic);
\* let mut secret_keys = Vec::with_capacity(iterations.max(1))
BenchSignCall(message, iterations, seed) ==
    /\ frame = <<>>
    /\ secret_keys = <<>>
    /\ frame' = [fn |-> "bench_sign", pc |-> "keygen", message |-> message,
                 iterations |-> iterations, seed |-> seed,
                 rng |-> XorShift64_new(seed), next |-> 0,
                 results |-> <<>>, result |-> <<>>]
    /\ last' = [op |-> "running"]
    /\ UNCHANGED <<heapvars, rng, public_keys, secret_keys, signatures>>

\* the keypair k goes to the Vec and the generator moves on
BenchPush(k) ==
    /\ AddKeypair(k, frame.seed, Len(secret_keys))
    /\ frame' = [frame EXCEPT !.rng = k.rng]

\* for _ in 0..iterations.max(1): one iteration
BenchSignKeygen ==
    /\ frame # <<>>
    /\ frame.fn = "bench_sign"
    /\ frame.pc = "keygen"
    /\ Len(secret_keys) < Max(frame.iterations, 1)
    /\ BenchPush(keypair_with_rng(frame.rng))
    /\ UNCHANGED <<heapvars, rng, signatures, last>>

\* the keygen loop is over
BenchSignStart ==
    /\ frame # <<>>
    /\ frame.fn = "bench_sign"
    /\ frame.pc = "keygen"
    /\ ~(Len(secret_keys) < Max(frame.iterations, 1))
    /\ frame' = [frame EXCEPT !.pc = "sign"]
    /\ UNCHANGED <<heapvars, rng, public_keys, secret_keys, signatures, last>>

\* the sign call r of the loop on secret_keys[i]: an error returns from
\* bench_sign through the ? operator
BenchSigned(i, r) ==
    /\ secret_keys' = [secret_keys EXCEPT ![i] = r.secret_key]
    /\ IF r.result[1] = "Ok"
       THEN /\ signatures' = Append(signatures,
                    [elements |-> r.result[2].elements, msg |-> frame.message,
                     sk |-> i, kp |-> secret_keys[i].kp])
            /\ frame' = [frame EXCEPT !.next = @ + 1,
                                      !.results = Append(@, <<"Ok">>)]
       ELSE /\ signatures' = signatures
            /\ frame' = [frame EXCEPT !.pc = "returned",
                                      !.results = Append(@, r.result),
                                      !.result = r.result]

\* a sign loop that signs with the first key at every iteration
BenchSignSign_first_key ==
    /\ frame # <<>>
    /\ frame.fn = "bench_sign"
    /\ frame.pc = "sign"
    /\ frame.next < Min(frame.iterations, Len(secret_keys))
    /\ BenchSigned(1, sign(frame.message, secret_keys[1]))
    /\ UNCHANGED <<heapvars, rng, public_keys, last>>

\* for secret_key in secret_keys.iter_mut().take(iterations): one iteration
BenchSignSign ==
    /\ frame # <<>>
    /\ frame.fn = "bench_sign"
    /\ frame.pc = "sign"
    /\ frame.next < Min(frame.iterations, Len(secret_keys))
    /\ BenchSigned(frame.next + 1,
                   sign(frame.message, secret_keys[frame.next + 1]))
    /\ UNCHANGED <<heapvars, rng, public_keys, last>>

\* the sign loop is over: Ok(start.elapsed())
BenchSignReturn ==
    /\ frame # <<>>
    /\ frame.fn = "bench_sign"
    /\ frame.pc = "sign"
    /\ ~(frame.next < Min(frame.iterations, Len(secret_keys)))
    /\ frame' = [frame EXCEPT !.pc = "returned", !.result = <<"Ok">>]
    /\ UNCHANGED <<heapvars, rng, public_keys, secret_keys, signatures, last>>

\* ------------------------------------------------------------------------
\* The allocation tracking of crates/dilithium (lib.rs): track_alloc,
\* track_dealloc and memory::reset_peak, one atomic operation at a time.
\* Every operation is SeqCst, so a run is an interleaving of the atomic
\* operations of the threads.  A thread allocates a block of size bytes,
\* holds it, and frees it; one more thread calls reset_peak.  A
\* compare_exchange_weak that fails spuriously reads the value the local
\* peak already has and changes nothing.
\* ------------------------------------------------------------------------
lamportvars == <<rng, public_keys, secret_keys, signatures, last, frame>>

\* usize::saturating_sub
saturating_sub(a, b) == IF a > b THEN a - b ELSE 0

\* thread t of the allocating threads goes on as the call c
AllocStep(t, pc, c) ==
    /\ tracking.alloc[t].pc = pc
    /\ tracking' = [tracking EXCEPT !.alloc[t] = c]

\* track_alloc(size):
\* let current = ALLOCATED.fetch_add(size, SeqCst) + size
TrackAlloc(t, size) ==
    /\ tracking.alloc[t].held = 0
    /\ ALLOCATED + size <= MaxAllocated
    /\ AllocStep(t, "idle",
          [tracking.alloc[t] EXCEPT !.pc = "load_baseline", !.held = size,
                                    !.current = ALLOCATED + size])
    /\ ALLOCATED' = ALLOCATED + size
    /\ UNCHANGED <<lamportvars, PEAK_ALLOCATED, BASELINE>>

\* let baseline = BASELINE.load(SeqCst);
\* let relative_current = current.saturating_sub(baseline)
TrackAllocLoadBaseline(t) ==
    /\ AllocStep(t, "load_baseline",
          [tracking.alloc[t] EXCEPT
              !.pc = "load_peak",
              !.baseline = BASELINE,
              !.relative_current =
                  saturating_sub(tracking.alloc[t].current, BASELINE)])
    /\ UNCHANGED <<lamportvars, ALLOCATED, PEAK_ALLOCATED, BASELINE>>

\* let mut peak = PEAK_ALLOCATED.load(SeqCst)
TrackAllocLoadPeak(t) ==
    /\ AllocStep(t, "load_peak",
          [tracking.alloc[t] EXCEPT !.pc = "while", !.peak = PEAK_ALLOCATED])
    /\ UNCHANGED <<lamportvars, ALLOCATED, PEAK_ALLOCATED, BASELINE>>

\* track_alloc of thread t returns, its locals gone
TrackAllocReturn(t) ==
    tracking' = [tracking EXCEPT
        !.alloc[t] = [IdleAlloc EXCEPT !.held = tracking.alloc[t].held],
        !.expected = Max(@, saturating_sub(tracking.alloc[t].current,
                                           tracking.recorded))]

\* while relative_current > peak { match PEAK_ALLOCATED
\*     .compare_exchange_weak(peak, relative_current, SeqCst, SeqCst) {
\*         Ok(_) => break, Err(observed) => peak = observed } }
TrackAllocWhile(t) ==
    /\ tracking.alloc[t].pc = "while"
    /\ LET a == tracking.alloc[t]
       IN  IF ~(a.relative_current > a.peak)
           THEN TrackAllocReturn(t) /\ UNCHANGED PEAK_ALLOCATED
           ELSE IF PEAK_ALLOCATED = a.peak
           THEN /\ PEAK_ALLOCATED' = a.relative_current
                /\ TrackAllocReturn(t)
           ELSE /\ tracking' = [tracking EXCEPT !.alloc[t].peak = PEAK_ALLOCATED]
                /\ UNCHANGED PEAK_ALLOCATED
    /\ UNCHANGED <<lamportvars, ALLOCATED, BASELINE>>

\* track_dealloc(size) on the block thread t holds:
\* ALLOCATED.fetch_sub(size, SeqCst)
TrackDealloc(t) ==
    /\ tracking.alloc[t].held > 0
    /\ AllocStep(t, "idle", [tracking.alloc[t] EXCEPT !.held = 0])
    /\ ALLOCATED' = ALLOCATED - tracking.alloc[t].held
    /\ UNCHANGED <<lamportvars, PEAK_ALLOCATED, BASELINE>>

\* memory::reset_peak(): let current = ALLOCATED.load(SeqCst)
ResetPeakLoad ==
    /\ tracking.reset.pc = "idle"
    /\ tracking' = [tracking EXCEPT !.reset = [pc |-> "store_baseline",
                                               current |-> ALLOCATED]]
    /\ UNCHANGED <<lamportvars, ALLOCATED, PEAK_ALLOCATED, BASELINE>>

\* BASELINE.store(current, SeqCst)
ResetPeakStoreBaseline ==
    /\ tracking.reset.pc = "store_baseline"
    /\ BASELINE' = tracking.reset.current
    /\ tracking' = [tracking EXCEPT !.reset.pc = "store_peak"]
    /\ UNCHANGED <<lamportvars, ALLOCATED, PEAK_ALLOCATED>>

\* PEAK_ALLOCATED.store(0, SeqCst), and reset_peak returns
ResetPeakStorePeak ==
    /\ tracking.reset.pc = "store_peak"
    /\ PEAK_ALLOCATED' = 0
    /\ tracking' = [tracking EXCEPT !.reset = [pc |-> "idle", current |-> 0],
                                    !.expected = 0,
                                    !.recorded = tracking.reset.current]
    /\ UNCHANGED <<lamportvars, ALLOCATED, BASELINE>>

\* memory::peak_bytes()
peak_bytes == PEAK_ALLOCATED

\* ------------------------------------------------------------------------
\* Properties
\* ------------------------------------------------------------------------
SignedBy(i) == {j \in 1..Len(signatures) : signatures[j].sk = i}

SignedFrom(k) == {j \in 1..Len(signatures) : signatures[j].kp = k}

\* the last call verified signatures[last.sig] against the public key of
\* the keypair that signed it
VerifiedOwnKey ==
    /\ last.op = "verify"
    /\ last.pk = signatures[last.sig].kp

\* C1: round trip.  A sign call on a fresh secret key returns Ok, and
\* verifying any signature so made, for the message it signed and under
\* the public key of its keypair, returns Ok(true).
C1_RoundTrip ==
    /\ (last.op = "sign" /\ ~last.used_before) => last.res[1] = "Ok"
    /\ (VerifiedOwnKey /\ last.msg = signatures[last.sig].msg)
            => last.res = <<"Ok", TRUE>>

C1_Witness ==
    /\ VerifiedOwnKey
    /\ last.msg = signatures[last.sig].msg
    /\ last.res = <<"Ok", TRUE>>

\* the earlier successful sign calls on secret_keys[last.sk]
EarlierSigns ==
    {j \in SignedBy(last.sk) : last.res[1] = "Ok" => j # last.res[2]}

\* C2: one-time enforcement.  A secret key object that has signed is marked
\* used; a sign call on a fresh object returns Ok and every sign call on an
\* object that has signed before returns Err(KeyAlreadyUsed), whatever the
\* two messages are.
C2_OneTime ==
    /\ \A j \in 1..Len(signatures) : secret_keys[signatures[j].sk].used
    /\ \A i \in 1..Len(secret_keys) : Cardinality(SignedBy(i)) <= 1
    /\ last.op = "sign" =>
          IF EarlierSigns # {}
          THEN last.res = <<"Err", "KeyAlreadyUsed">>
          ELSE ~last.used_before => last.res[1] = "Ok"

C2_Witness ==
    /\ last.op = "sign"
    /\ last.res = <<"Err", "KeyAlreadyUsed">>
    /\ \E j \in EarlierSigns : signatures[j].msg # last.msg

\* C3: at most max_signatures_per_key successful signatures are ever made
\* from the secret elements of one keypair.
C3_OneSignaturePerKeypair ==
    \A k \in 1..Len(public_keys) :
        Cardinality(SignedFrom(k)) <= max_signatures_per_key

\* C4: tamper detection.  Verifying a signature under the public key of its
\* keypair for a message other than the one signed returns Ok(false).
C4_TamperDetection ==
    (VerifiedOwnKey /\ last.msg # signatures[last.sig].msg)
        => last.res = <<"Ok", FALSE>>

C4_Witness ==
    /\ VerifiedOwnKey
    /\ last.msg # signatures[last.sig].msg
    /\ last.res = <<"Ok", FALSE>>

\* C5: a secret key is Fresh (used = FALSE) or Consumed (used = TRUE).  A key
\* returned by key generation is Fresh; an object goes from Fresh to Consumed
\* in exactly the steps that are a successful sign on it; no step takes an
\* object from Consumed back to Fresh.
C5_FreshConsumed ==
    [][ /\ \A i \in 1..Len(secret_keys) :
              secret_keys[i].used => secret_keys'[i].used
        /\ \A i \in 1..Len(secret_keys) :
              (~secret_keys[i].used /\ secret_keys'[i].used)
                  <=> (last'.op = "sign" /\ last'.sk = i /\ last'.res[1] = "Ok")
        /\ Len(public_keys') > Len(public_keys)
              => ~secret_keys'[Len(secret_keys')].used ]_vars

C5_Witness ==
    /\ last.op = "sign"
    /\ last.used_before
    /\ secret_keys[last.sk].used
    /\ \E i \in 1..Len(secret_keys) : ~secret_keys[i].used

\* the public key generated together with secret_keys[i]
KeypairOf(i) == public_keys[secret_keys[i].kp]

\* secret_keys[i] and secret_keys[j] are each the first keypair of a
\* generator made by XorShift64::new
BothFirstDrawn(i, j) == KeypairOf(i).nth = 0 /\ KeypairOf(j).nth = 0

IdenticalKeypairs(i, j) ==
    /\ secret_keys[i].elements = secret_keys[j].elements
    /\ KeypairOf(i).elements = KeypairOf(j).elements

DifferInEveryElement(i, j) ==
    \A e \in 1..SECRET_ELEMENTS :
        /\ secret_keys[i].elements[e] # secret_keys[j].elements[e]
        /\ KeypairOf(i).elements[e] # KeypairOf(j).elements[e]

C7_DifferentSeedsDiffer ==
    \A i, j \in 1..Len(secret_keys) :
        (BothFirstDrawn(i, j) /\ KeypairOf(i).seed # KeypairOf(j).seed)
            => DifferInEveryElement(i, j)

\* C7 amended: keypairs generated from two different seeds differ in every
\* secret element and every public element unless the seeds are 0 and
\* 0x9e3779b97f4a7c15, and the keypairs of those two seeds are identical.
C7_DifferentSeedsDifferUnlessZeroRemap ==
    \A i, j \in 1..Len(secret_keys) :
        BothFirstDrawn(i, j) =>
            LET seeds == {KeypairOf(i).seed, KeypairOf(j).seed}
            IN  IF seeds = {ZERO_SEED, GOLDEN_SEED}
                THEN IdenticalKeypairs(i, j)
                ELSE Cardinality(seeds) = 2 => DifferInEveryElement(i, j)

C7_Witness ==
    \E i, j \in 1..Len(secret_keys) :
        /\ BothFirstDrawn(i, j)
        /\ KeypairOf(i).seed = ZERO_SEED
        /\ KeypairOf(j).seed \notin {ZERO_SEED, GOLDEN_SEED}
        /\ DifferInEveryElement(i, j)

\* C8: error contract of verify.  A signature of other than 256 elements
\* gives Err(InvalidSignatureLength{expected: 256, actual}) whatever the
\* public key is; otherwise a public key of other than 512 elements gives
\* Err(InvalidPublicKeyLength{expected: 512, actual}); otherwise the result
\* is Ok(true) or Ok(false).
C8_VerifyErrorContract ==
    last.op = "verify_any_length" =>
        IF last.sig_len # 256
        THEN last.res = <<"Err", "InvalidSignatureLength", 256, last.sig_len>>
        ELSE IF last.pk_len # 512
        THEN last.res = <<"Err", "InvalidPublicKeyLength", 512, last.pk_len>>
        ELSE last.res[1] = "Ok" /\ last.res[2] \in BOOLEAN

\* both lengths malformed: the signature's is the one reported
C8_Witness ==
    /\ last.op = "verify_any_length"
    /\ last.sig_len # 256
    /\ last.pk_len # 512
    /\ last.res = <<"Err", "InvalidSignatureLength", 256, last.sig_len>>

\* C9: length invariants.  Every public key and every secret key has 512
\* elements (16384 bytes) and every signature has 256 elements (8192
\* bytes), each element of HASH_SIZE bytes, whatever the message length.
C9_LengthInvariants ==
    /\ \A k \in 1..Len(public_keys) :
            /\ Len(public_keys[k].elements) = 512
            /\ byte_len(public_keys[k]) = 16384
            /\ \A e \in 1..512 : Len(public_keys[k].elements[e]) = HASH_SIZE
    /\ \A i \in 1..Len(secret_keys) :
            /\ Len(secret_keys[i].elements) = 512
            /\ byte_len(secret_keys[i]) = 16384
            /\ \A e \in 1..512 : Len(secret_keys[i].elements[e]) = HASH_SIZE
    /\ \A j \in 1..Len(signatures) :
            /\ Len(signatures[j].elements) = 256
            /\ byte_len(signatures[j]) = 8192
            /\ \A e \in 1..256 : Len(signatures[j].elements[e]) = HASH_SIZE

\* signatures of the empty and of a non-empty message
C9_Witness ==
    \E j1, j2 \in 1..Len(signatures) :
        /\ signatures[j1].msg = <<>>
        /\ signatures[j2].msg # <<>>
        /\ byte_len(signatures[j1]) = 8192
        /\ byte_len(signatures[j2]) = 8192
        /\ byte_len(public_keys[signatures[j1].kp]) = 16384

\* C10: verify is pure and idempotent.  A verify call changes no signature,
\* public key, secret key or generator; no call of any operation changes a
\* signature or public key that exists; and after any call, verifying
\* again what the last verify call verified returns what it returned.
C10_VerifyPure ==
    [][ /\ last'.op = "verify" =>
              UNCHANGED <<rng, public_keys, secret_keys, signatures>>
        /\ \A j \in 1..Len(signatures) : signatures'[j] = signatures[j]
        /\ \A k \in 1..Len(public_keys) : public_keys'[k] = public_keys[k]
        /\ last.op = "verify" =>
              verify(last.msg, signatures'[last.sig], public_keys'[last.pk])
                  = last.res ]_vars

\* a verify call made while a fresh and a used secret key exist
C10_Witness ==
    /\ last.op = "verify"
    /\ \E i \in 1..Len(secret_keys) : secret_keys[i].used
    /\ \E i \in 1..Len(secret_keys) : ~secret_keys[i].used
    /\ Len(signatures) = 1

\* the statements a running keypair_with_seed call has left at most: the
\* iterations of the for loop not yet completed, each counted with the
\* bytes of its element and the chunk of a last draw, less the bytes of
\* the element in hand already filled
StatementsLeft(f) ==
    (SECRET_ELEMENTS - f.i) * (HASH_SIZE + 8)
        + (IF f.pc = "for" THEN 1 ELSE 0 - f.offset)

\* C11: key generation always completes.  A running keypair_with_seed call
\* always has a next statement to execute (it is at the test of one of its
\* two loops and has not indexed a slice out of range), every statement
\* leaves strictly fewer statements to execute and that number is never
\* negative, so the call returns; the for loop never runs past 512
\* iterations and the call returns after exactly 512, with the keypair
\* that keypair_with_seed gives for the seed.
C11_KeygenCompletes ==
    [][ /\ frame # <<>> =>
              /\ frame.pc \in {"for", "while"}
              /\ frame.i <= 512
              /\ StatementsLeft(frame) >= 0
              /\ frame' # frame
              /\ frame' # <<>> => StatementsLeft(frame') < StatementsLeft(frame)
        /\ frame' # <<>> =>
              /\ frame'.pc \in {"for", "while"}
              /\ frame'.i <= 512
              /\ StatementsLeft(frame') >= 0
        /\ (frame # <<>> /\ frame' = <<>>) =>
              /\ last'.iterations = 512
              /\ Len(public_keys') = Len(public_keys) + 1
              /\ LET k == keypair_with_seed(frame.seed)
                     n == Len(public_keys')
                 IN  /\ public_keys'[n].elements = k.public_key.elements
                     /\ secret_keys'[n].elements = k.secret_key.elements
                     /\ secret_keys'[n].used = k.secret_key.used ]_vars

C11_Witness ==
    /\ frame = <<>>
    /\ "iterations" \in DOMAIN last
    /\ last.iterations = 512
    /\ Len(public_keys) = 1
    /\ Len(public_keys[1].elements) = 512
    /\ public_keys[1].seed = ZERO_SEED

\* C12: zero-seed remap.  A generator made by XorShift64::new starts in
\* state 0x9e3779b97f4a7c15 when the seed is 0 and in state seed otherwise,
\* and is never in state 0; the keypairs drawn first from seed 0 and from
\* seed 0x9e3779b97f4a7c15, 16384 bytes of the stream each, are the same.
C12_ZeroSeedRemap ==
    /\ rng # <<>> =>
          /\ rng[1].state # <<0, 0, 0, 0>>
          /\ rng[1].drawn = 0 =>
                rng[1].state = IF rng[1].seed = <<0, 0, 0, 0>>
                               THEN <<31765, 32586, 31161, 40503>>
                               ELSE rng[1].seed
    /\ \A i, j \in 1..Len(secret_keys) :
          (/\ BothFirstDrawn(i, j)
           /\ KeypairOf(i).seed = <<0, 0, 0, 0>>
           /\ KeypairOf(j).seed = <<31765, 32586, 31161, 40503>>)
              => IdenticalKeypairs(i, j)

\* a keypair of seed 0x9e3779b97f4a7c15 and one drawn from a generator
\* made with seed 0
C12_Witness ==
    /\ rng # <<>>
    /\ rng[1].seed = ZERO_SEED
    /\ rng[1].drawn = 1
    /\ Len(secret_keys) = 2
    /\ KeypairOf(1).seed = GOLDEN_SEED
    /\ KeypairOf(2).seed = ZERO_SEED
    /\ BothFirstDrawn(1, 2)
    /\ IdenticalKeypairs(1, 2)

\* C13: size accessors.  sizes() is public_key_bytes = 512*32 = 16384,
\* secret_key_bytes = 512*32 = 16384, signature_bytes = 256*32 = 8192, and
\* these are the byte_len() of every public key, secret key and signature
\* that key generation and sign have produced.
C13_Sizes ==
    /\ sizes.public_key_bytes = 512 * 32
    /\ sizes.public_key_bytes = 16384
    /\ sizes.secret_key_bytes = 512 * 32
    /\ sizes.secret_key_bytes = 16384
    /\ sizes.signature_bytes = 256 * 32
    /\ sizes.signature_bytes = 8192
    /\ \A k \in 1..Len(public_keys) :
            byte_len(public_keys[k]) = sizes.public_key_bytes
    /\ \A i \in 1..Len(secret_keys) :
            byte_len(secret_keys[i]) = sizes.secret_key_bytes
    /\ \A j \in 1..Len(signatures) :
            byte_len(signatures[j]) = sizes.signature_bytes

\* a sign call has just returned a signature of signature_bytes bytes
C13_Witness ==
    /\ last.op = "sign"
    /\ last.res[1] = "Ok"
    /\ byte_len(signatures[last.res[2]]) = sizes.signature_bytes
    /\ byte_len(secret_keys[last.sk]) = sizes.secret_key_bytes
    /\ byte_len(public_keys[secret_keys[last.sk].kp]) = sizes.public_key_bytes

\* C14: order of the checks in sign.  A sign call on a used secret key
\* returns KeyAlreadyUsed whatever its length; on a fresh key of other than
\* 512 elements it returns InvalidSecretKeyLength{expected: 512, actual:
\* its element count}; on a fresh key of 512 elements it returns Ok.
C14_SignCheckOrder ==
    last.op = "sign" =>
        LET actual == Len(secret_keys[last.sk].elements)
        IN  IF last.used_before
            THEN last.res = <<"Err", "KeyAlreadyUsed">>
            ELSE IF actual # 512
            THEN last.res = <<"Err", "InvalidSecretKeyLength", 512, actual>>
            ELSE last.res[1] = "Ok"

\* a secret key both used and of wrong length
C14_Witness ==
    /\ last.op = "sign"
    /\ last.used_before
    /\ Len(secret_keys[last.sk].elements) # 512
    /\ last.res = <<"Err", "KeyAlreadyUsed">>

\* C15: a sign call that returns an error leaves every secret key as it
\* was, used flag and elements, and makes no signature; sign called again
\* on that key returns the same error for every message.
C15_SignErrorLeavesKey ==
    [][ (last'.op = "sign" /\ last'.res[1] = "Err") =>
            /\ secret_keys' = secret_keys
            /\ signatures' = signatures
            /\ \A message \in Messages :
                  sign(message, secret_keys'[last'.sk]).result = last'.res ]_vars

\* InvalidSecretKeyLength returned on a key that is still fresh
C15_Witness ==
    /\ last.op = "sign"
    /\ last.res[1] = "Err"
    /\ last.res[2] = "InvalidSecretKeyLength"
    /\ ~secret_keys[last.sk].used
    /\ \E i \in 1..Len(secret_keys) : secret_keys[i].used

\* the eight bits of a byte, most significant first
BitsOfByte(byte) == [p \in 1..8 |-> (byte \div 2^(8 - p)) % 2]

\* the 256 bits of a digest: the bits of its bytes in order, each byte most
\* significant bit first
BitsOfDigest(digest) ==
    [i \in 1..(8 * Len(digest)) |->
        BitsOfByte(digest[((i - 1) \div 8) + 1])[((i - 1) % 8) + 1]]

\* C16: bit-indexed selection.  For every signature made and every position
\* i in 0..256, element i of the signature is element 2*i + b of the secret
\* key that signed, b being bit i of the digest of the message signed.
C16_BitIndexedSelection ==
    \A j \in 1..Len(signatures) :
        LET bits == BitsOfDigest(hash_bytes(signatures[j].msg))
            secret == secret_keys[signatures[j].sk].elements
        IN  \A i \in 0..255 :
                signatures[j].elements[i + 1] = secret[2 * i + bits[i + 1] + 1]

\* a signature whose positions take the even element of some pairs and the
\* odd element of others, through bits that differ within one byte
C16_Witness ==
    \E j \in 1..Len(signatures) :
        LET bits == BitsOfDigest(hash_bytes(signatures[j].msg))
            secret == secret_keys[signatures[j].sk].elements
        IN  /\ \E i \in 0..7 : bits[i + 1] # bits[8 - i]
            /\ \E i \in 0..255 :
                    /\ bits[i + 1] = 0
                    /\ signatures[j].elements[i + 1] = secret[2 * i + 1]
            /\ \E i \in 0..255 :
                    /\ bits[i + 1] = 1
                    /\ signatures[j].elements[i + 1] = secret[2 * i + 2]

\* One signing identity: a single keypair, its secret key and the clones of
\* it, the signatures made and their verification.
Next ==
    \/ \E seed \in Seeds : KeypairWithSeed(seed, 1)
    \/ Keypair(1)
    \/ \E i \in 1..Len(secret_keys) : CloneSecretKey(i)
    \/ \E message \in Messages, i \in 1..Len(secret_keys) : Sign(message, i)
    \/ \E message \in Messages, j \in 1..Len(signatures), k \in 1..Len(public_keys) :
            Verify(message, j, k)

Spec == Init /\ [][Next]_vars

\* Key generation alone: two keypairs side by side, from seeds and from
\* generators.
NextKeygen ==
    \/ \E seed \in KeygenSeeds : NewRng(seed, 2)
    \/ KeypairWithRng(2)
    \/ \E seed \in KeygenSeeds : KeypairWithSeed(seed, 2)

SpecKeygen == Init /\ [][NextKeygen]_vars

\* verify on signatures and public keys of every length
NextLengths ==
    \/ \E seed \in Seeds : KeypairWithSeed(seed, 1)
    \/ \E message \in Messages, i \in 1..Len(secret_keys) : Sign(message, i)
    \/ \E message \in Messages, j \in 1..Len(signatures), k \in 1..Len(public_keys),
          sig_len \in SignatureLens, pk_len \in PublicKeyLens :
            VerifyAnyLength(message, j, k, sig_len, pk_len)

SpecLengths == Init /\ [][NextLengths]_vars

\* sign on secret keys of every length
NextSecretLengths ==
    \/ \E seed \in Seeds : KeypairWithSeed(seed, 1)
    \/ \E i \in 1..Len(secret_keys), sk_len \in SecretKeyLens :
            SecretKeyWithLen(i, sk_len)
    \/ \E message \in Messages, i \in 1..Len(secret_keys) : Sign(message, i)

SpecSecretLengths == Init /\ [][NextSecretLengths]_vars

\* Positions at which a signature handed to verify has a forged element:
\* none, and the last
ForgedPositions == {0, SIGNATURE_ELEMENTS}

\* sign and verify statement by statement, one call at a time, on keys and
\* signatures of right and wrong lengths
NextStatements ==
    \/ \E seed \in Seeds : KeypairWithSeed(seed, 1)
    \/ frame = <<>> /\ \E i \in 1..Len(secret_keys) :
            SecretKeyWithLen(i, SECRET_ELEMENTS - 1)
    \/ \E message \in Messages, i \in 1..Len(secret_keys) : SignCall(message, i)
    \/ SignCheckUsed
    \/ SignCheckLen
    \/ SignDigest
    \/ SignSignDigest
    \/ SignReturnOk
    \/ \E message \in Messages, j \in 1..Len(signatures), k \in 1..Len(public_keys),
          sig_len \in {SIGNATURE_ELEMENTS - 1, SIGNATURE_ELEMENTS},
          pk_len \in {SECRET_ELEMENTS - 1, SECRET_ELEMENTS},
          forged \in ForgedPositions :
            VerifyCall(message, j, k, sig_len, pk_len, forged)
    \/ VerifyCheckSignatureLen
    \/ VerifyCheckPublicKeyLen
    \/ VerifyDigest
    \/ VerifyForNext
    \/ VerifyReturnTrue

SpecStatements == Init /\ [][NextStatements]_vars

\* keypair_with_seed statement by statement
NextKeygenSteps ==
    \/ \E seed \in KeygenSeeds : KeypairWithSeedCall(seed)
    \/ ForNext
    \/ FillBytesStep
    \/ ForPush
    \/ KeypairReturn

SpecKeygenSteps == Init /\ [][NextKeygenSteps]_vars

\* the positions i in 0..256 at which the digest of element i of the
\* signature is not element 2*i + b_i of the public key, b_i being bit i of
\* the digest of the message
MismatchingPositions(message, signature, public_key) ==
    LET bits == BitsOfDigest(hash_bytes(message))
    IN  {i \in 0..(SIGNATURE_ELEMENTS - 1) :
            hash_bytes(signature.elements[i + 1])
                # public_key.elements[2 * i + bits[i + 1] + 1]}

\* the result of a verify call against the positions that mismatch: examined
\* counts the positions compared, read the elements read and hashed the
\* digests computed, the one of the message included
VerifyAgrees(call, mismatching) ==
    /\ call.res = <<"Ok", mismatching = {}>>
    /\ call.read = 2 * call.examined
    /\ call.hashed = 1 + call.examined
    /\ IF mismatching = {}
       THEN call.examined = SIGNATURE_ELEMENTS
       ELSE /\ call.examined - 1 \in mismatching
            /\ \A i \in mismatching : call.examined - 1 <= i

\* C17: verification result.  With a signature of 256 elements and a public
\* key of 512, verify returns Ok(true) exactly when every position matches;
\* otherwise it returns Ok(false) at the first mismatching position, having
\* examined no later one, which is the result of checking all positions.
C17_VerifyShortCircuit ==
    (/\ last.op = "verify"
     /\ last.sig_len = SIGNATURE_ELEMENTS
     /\ last.pk_len = SECRET_ELEMENTS)
    => VerifyAgrees(last,
           MismatchingPositions(last.msg,
               SignatureArgument(last.sig, last.sig_len, last.forged),
               PublicKeyArgument(last.pk, last.pk_len)))

\* a verify call that returned Ok(false) at the last position, the 255 before
\* it having matched
C17_Witness ==
    /\ last.op = "verify"
    /\ last.sig_len = SIGNATURE_ELEMENTS
    /\ last.pk_len = SECRET_ELEMENTS
    /\ last.res = <<"Ok", FALSE>>
    /\ last.examined = SIGNATURE_ELEMENTS

\* Digests the index selection is examined on: those of the messages, and
\* digests of one repeated byte with all, none, alternate and single bits set
DigestsExamined ==
    {hash_bytes(message) : message \in Messages}
        \cup {[p \in 1..HASH_SIZE |-> byte] : byte \in {0, 255, 170, 85, 1, 128}}

\* the indices selected by a digest over the positions 0..256
SelectedIndices(digest) ==
    {selected_secret_index(digest, i) : i \in 0..(SIGNATURE_ELEMENTS - 1)}

\* selected is 256 indices below 512, exactly one of each pair 2p, 2p + 1
OneOfEachPair(selected) ==
    /\ Cardinality(selected) = SIGNATURE_ELEMENTS
    /\ \A idx \in selected : idx >= 0 /\ idx < SECRET_ELEMENTS
    /\ \A p \in 0..(SIGNATURE_ELEMENTS - 1) :
            (2 * p \in selected) # (2 * p + 1 \in selected)

\* the elements of a signature are 256 of the 512 elements of the secret
\* key, one of each pair
RevealsOneOfEachPair(revealed, secret) ==
    /\ Cardinality(revealed) = SIGNATURE_ELEMENTS
    /\ Cardinality({idx \in 1..Len(secret) : secret[idx] \in revealed})
            = SIGNATURE_ELEMENTS
    /\ \A p \in 0..(SIGNATURE_ELEMENTS - 1) :
            (secret[2 * p + 1] \in revealed) # (secret[2 * p + 2] \in revealed)

\* C18: disjoint pairs.  For every digest examined and every position i in
\* 0..256 the selected index is 2i or 2i+1, so below 512; the pairs of
\* different positions are disjoint; and every signature made reveals
\* exactly one element of each pair, 256 of the 512 secret elements.
C18_DisjointPairs ==
    /\ \A digest \in DigestsExamined :
            /\ \A i \in 0..(SIGNATURE_ELEMENTS - 1) :
                    /\ selected_secret_index(digest, i) \in {2 * i, 2 * i + 1}
                    /\ selected_secret_index(digest, i) < SECRET_ELEMENTS
            /\ OneOfEachPair(SelectedIndices(digest))
    /\ \A i \in 0..(SIGNATURE_ELEMENTS - 1) :
            \A j \in (i + 1)..(SIGNATURE_ELEMENTS - 1) :
                {2 * i, 2 * i + 1} \cap {2 * j, 2 * j + 1} = {}
    /\ \A j \in 1..Len(signatures) :
            RevealsOneOfEachPair(
                {signatures[j].elements[i] : i \in 1..Len(signatures[j].elements)},
                secret_keys[signatures[j].sk].elements)

\* a signature made with a 512-element key over a digest that selects the
\* even element of some pairs and the odd element of others
C18_Witness ==
    \E j \in 1..Len(signatures) :
        LET selected == SelectedIndices(hash_bytes(signatures[j].msg))
        IN  /\ Len(secret_keys[signatures[j].sk].elements) = SECRET_ELEMENTS
            /\ \E p, q \in 0..(SIGNATURE_ELEMENTS - 1) :
                    2 * p \in selected /\ 2 * q + 1 \in selected

\* C19: a successful sign sets used on the key it signed with and changes
\* nothing else: the 512 secret elements are the same after the call as
\* before, every other secret key, every public key and every signature
\* made before are untouched, and the one signature returned is added.
C19_SignFrame ==
    [][ (last'.op = "sign" /\ last'.res[1] = "Ok") =>
            /\ ~secret_keys[last'.sk].used
            /\ secret_keys'[last'.sk].used
            /\ Len(secret_keys'[last'.sk].elements) = SECRET_ELEMENTS
            /\ secret_keys'[last'.sk].elements = secret_keys[last'.sk].elements
            /\ secret_keys' = [secret_keys EXCEPT ![last'.sk].used = TRUE]
            /\ public_keys' = public_keys
            /\ rng' = rng
            /\ Len(signatures') = Len(signatures) + 1
            /\ SubSeq(signatures', 1, Len(signatures)) = signatures ]_vars

\* a sign call that returned a signature and left a consumed key whose 512
\* elements are still those that hash to the public key
C19_Witness ==
    /\ last.op = "sign"
    /\ last.res[1] = "Ok"
    /\ secret_keys[last.sk].used
    /\ Len(secret_keys[last.sk].elements) = SECRET_ELEMENTS
    /\ \A idx \in 1..SECRET_ELEMENTS :
            hash_bytes(secret_keys[last.sk].elements[idx])
                = public_keys[secret_keys[last.sk].kp].elements[idx]

\* C20: validation before cryptographic work.  While sign is at its used or
\* length check, and while verify is at either length check, no digest has
\* been computed and no element read; a call is past its checks only with
\* arguments that pass them all, and then never indexes out of range; and
\* every call that returns an error returns having computed no digest and
\* read no element.
C20_ValidationFirst ==
    /\ (frame # <<>> /\ frame.fn = "sign") =>
            IF frame.pc \in {"check_used", "check_len"}
            THEN frame.hashed = 0 /\ frame.read = 0
            ELSE /\ frame.pc \in {"digest", "sign_digest", "set_used"}
                 /\ ~secret_keys[frame.sk].used
                 /\ Len(secret_keys[frame.sk].elements) = SECRET_ELEMENTS
    /\ (frame # <<>> /\ frame.fn = "verify") =>
            IF frame.pc \in {"check_signature_len", "check_public_key_len"}
            THEN frame.hashed = 0 /\ frame.read = 0
            ELSE /\ frame.pc \in {"digest", "for"}
                 /\ frame.sig_len = SIGNATURE_ELEMENTS
                 /\ frame.pk_len = SECRET_ELEMENTS
    /\ (last.op \in {"sign", "verify"} /\ last.res[1] = "Err") =>
            last.hashed = 0 /\ last.read = 0
    /\ (last.op \in {"sign", "verify"} /\ last.res[1] = "Ok") =>
            last.hashed > 0 /\ last.read > 0

\* verify returned the error of its second check, with no digest computed,
\* after a sign call that ran to its end and one that returned an error
C20_Witness ==
    /\ last.op = "verify"
    /\ last.res[1] = "Err"
    /\ last.res[2] = "InvalidPublicKeyLength"
    /\ last.hashed = 0
    /\ \E i \in 1..Len(secret_keys) : secret_keys[i].used
    /\ \E i \in 1..Len(secret_keys) :
            Len(secret_keys[i].elements) # SECRET_ELEMENTS

\* two threads that sign, statement by statement, with the keys of one
\* keypair and its clone
NextThreads ==
    \/ \E seed \in Seeds : KeypairWithSeed(seed, 1)
    \/ frame = <<>> /\ \E i \in 1..Len(secret_keys) : CloneSecretKey(i)
    \/ \E t \in Threads, message \in Messages, i \in 1..Len(secret_keys) :
            ThreadSignCall(t, message, i)
    \/ \E t \in Threads : ThreadSignCheckUsed(t)
    \/ \E t \in Threads : ThreadSignCheckLen(t)
    \/ \E t \in Threads : ThreadSignDigest(t)
    \/ \E t \in Threads : ThreadSignSignDigest(t)
    \/ \E t \in Threads : ThreadSignReturnOk(t)

SpecThreads == Init /\ [][NextThreads]_vars

RECURSIVE Outputs(_, _)
Outputs(state, n) ==
    IF n = 0 THEN <<>>
    ELSE IF n = 1 THEN <<next_u64(state)>>
    ELSE LET a == Outputs(state, n \div 2)
         IN  a \o Outputs(a[Len(a)], n - (n \div 2))

\* byte k (0 the least significant) of a u64
ByteOf(x, k) == (x[(k \div 2) + 1] \div (256 ^ (k % 2))) % 256

\* the 32-byte draw number d (from 0) of a stream of outputs: four outputs,
\* each least significant byte first
DrawOf(outputs, d) ==
    [b \in 1..HASH_SIZE |->
        ByteOf(outputs[(4 * d) + ((b - 1) \div 8) + 1], (b - 1) % 8)]

\* the elements of a keypair are the draws numbered from first of the
\* stream, and the digests of those draws
BuiltFromDraws(secret, public, outputs, first) ==
    /\ Len(secret) = SECRET_ELEMENTS
    /\ Len(public) = SECRET_ELEMENTS
    /\ \A i \in 0..(SECRET_ELEMENTS - 1) :
            /\ secret[i + 1] = DrawOf(outputs, first + i)
            /\ public[i + 1] = hash_bytes(secret[i + 1])

\* C22: matching keys.  For every keypair generated, the nth from its
\* generator, secret element i is 32-byte draw number 512 * nth + i of the
\* stream of XorShift64::new(seed), public element i is the digest of secret
\* element i, and the secret key is unused.
C22_KeysFromSuccessiveDraws ==
    \A i \in 1..Len(secret_keys) :
        /\ ~secret_keys[i].used
        /\ BuiltFromDraws(secret_keys[i].elements, KeypairOf(i).elements,
              Outputs(XorShift64_new(KeypairOf(i).seed),
                      4 * SECRET_ELEMENTS * (KeypairOf(i).nth + 1)),
              SECRET_ELEMENTS * KeypairOf(i).nth)

\* two keypairs drawn one after the other from one generator
C22_Witness ==
    /\ Len(secret_keys) = 2
    /\ KeypairOf(1).nth = 0
    /\ KeypairOf(2).nth = 1
    /\ KeypairOf(1).seed = KeypairOf(2).seed
    /\ last.op = "keypair_with_rng"

\* a generator followed call by call, from seeds given and seeds derived
\* from labels
NextGenerator ==
    \/ \E seed \in GeneratorSeeds : NewRng(seed, 1)
    \/ NextU64
    \/ \E n \in 0..MaxFillLen : FillBytes(n)
    \/ \E label \in Labels : SeedFromStr(label)
    \/ \E label \in Labels : NewRng(seed_from_str(label), 1)

SpecGenerator == Init /\ [][NextGenerator]_vars

\* the 64 bits of a u64, bit 0 the least significant
BitsOfWord(x) == [j \in 0..63 |-> (x[(j \div 16) + 1] \div (2 ^ (j % 16))) % 2]

\* shifts of 64 bits: the bits shifted out are lost, zeros come in
ShlBits(b, n) == [j \in 0..63 |-> IF j >= n THEN b[j - n] ELSE 0]

ShrBits(b, n) == [j \in 0..63 |-> IF j + n <= 63 THEN b[j + n] ELSE 0]

XorBitwise(a, b) == [j \in 0..63 |-> (a[j] + b[j]) % 2]

\* x ^= x << 13; x ^= x >> 7; x ^= x << 17, bit by bit
XorShiftBits(b) ==
    LET x1 == XorBitwise(b, ShlBits(b, 13))
        x2 == XorBitwise(x1, ShrBits(x1, 7))
        x3 == XorBitwise(x2, ShlBits(x2, 17))
    IN  x3

\* C23: each next_u64 call takes the 64-bit state x through x ^= x << 13,
\* x ^= x >> 7, x ^= x << 17 with shifts truncated to 64 bits, returns the
\* result and leaves it as the state of the generator.
C23_XorShiftStep ==
    /\ last.op = "next_u64" =>
          /\ \A j \in 0..63 :
                BitsOfWord(last.value)[j] = XorShiftBits(BitsOfWord(last.before))[j]
          /\ rng[1].state = last.value
          /\ \A k \in 1..4 : last.value[k] \in 0..(LIMB - 1)
    /\ next_u64(<<1, 0, 0, 0>>) = <<8257, 16514, 0, 0>>

\* next_u64 returned on a state whose shifts to the left lose bits
C23_Witness ==
    /\ last.op = "next_u64"
    /\ last.before[4] >= 32768
    /\ rng[1].calls = MaxCalls

\* the number of 8-byte chunks a buffer of n bytes takes
ChunksFor(n) == (n + 7) \div 8

\* out is the first n bytes of the outputs, each least significant byte
\* first, and state is the generator after exactly ChunksFor(n) of them
PackedLittleEndian(before, n, out, state, outputs) ==
    /\ Len(out) = n
    /\ Len(outputs) = ChunksFor(n)
    /\ \A j \in 0..(n - 1) : out[j + 1] = ByteOf(outputs[(j \div 8) + 1], j % 8)
    /\ state = IF n = 0 THEN before ELSE outputs[ChunksFor(n)]

\* C24: fill_bytes on a buffer of n bytes advances the generator exactly
\* ceil(n/8) times; byte j of the buffer is byte j mod 8, least significant
\* first, of output number j div 8; the bytes of a last partial chunk that
\* do not fit are dropped, the next call starting from a new output; and
\* for n = 0 the state is unchanged.
C24_FillBytesPacking ==
    last.op = "fill_bytes" =>
        PackedLittleEndian(last.before, last.n, last.out, rng[1].state,
                           Outputs(last.before, ChunksFor(last.n)))

\* a buffer whose last chunk is partial, filled after a call that left the
\* generator unchanged
C24_Witness ==
    /\ last.op = "fill_bytes"
    /\ last.n = MaxFillLen
    /\ last.n % 8 # 0
    /\ ChunksFor(last.n) = 3
    /\ rng[1].calls = 2
    /\ last.before = XorShift64_new(rng[1].seed)

\* C25: seed_from_str maps a label to the u64 whose byte k, least
\* significant first, is byte k of the digest of the label, for k in 0..8;
\* the seed returned depends on nothing but the label, whatever calls came
\* before, so equal labels give equal seeds.
C25_SeedFromLabel ==
    /\ last.op = "seed_from_str" =>
          /\ \A k \in 0..7 : ByteOf(last.seed, k) = hash_bytes(last.label)[k + 1]
          /\ \A k \in 1..4 : last.seed[k] \in 0..(LIMB - 1)
    /\ \A label \in Labels :
          seed_from_str(label)
              = <<hash_bytes(label)[1] + 256 * hash_bytes(label)[2],
                  hash_bytes(label)[3] + 256 * hash_bytes(label)[4],
                  hash_bytes(label)[5] + 256 * hash_bytes(label)[6],
                  hash_bytes(label)[7] + 256 * hash_bytes(label)[8]>>

\* the seed of a label asked for again after the generator made from it
\* has moved on
C25_Witness ==
    /\ last.op = "seed_from_str"
    /\ Len(last.label) > 8
    /\ rng # <<>>
    /\ rng[1].seed = last.seed
    /\ rng[1].calls = MaxCalls
    /\ rng[1].state # last.seed

\* x ^ (x << n) ^ (x << 2n) ^ ..., which undoes x ^= x << n
RECURSIVE UndoShl(_, _, _)
UndoShl(x, n, k) ==
    IF k >= 64 THEN x ELSE Xor(x, Shl(UndoShl(x, n, k + n), n))

\* x ^ (x >> n) ^ (x >> 2n) ^ ..., which undoes x ^= x >> n
RECURSIVE UndoShr(_, _, _)
UndoShr(x, n, k) ==
    IF k >= 64 THEN x ELSE Xor(x, Shr(UndoShr(x, n, k + n), n))

\* the three steps of next_u64 undone, last first
prev_u64(x) == UndoShl(UndoShr(UndoShl(x, 17, 17), 7, 7), 13, 13)

\* the u64 with bit j alone set
UnitWord(j) == [k \in 1..4 |-> IF k = (j \div 16) + 1 THEN 2 ^ (j % 16) ELSE 0]

\* next_u64 is made of shifts and exclusive ors, so it maps the exclusive
\* or of two words to the exclusive or of their images; undone on each of
\* the 64 one-bit words it is undone on every word, and then only zero
\* maps to zero
UndoneOnEveryBit == \A j \in 0..63 : prev_u64(next_u64(UnitWord(j))) = UnitWord(j)

\* C26: the state of a generator is never zero: not after
\* XorShift64::new(seed), the zero seed included, and not after any of the
\* next_u64 and fill_bytes calls that follow; no value returned by next_u64
\* is zero either.
C26_StateNeverZero ==
    /\ rng # <<>> => rng[1].state # ZERO_SEED
    /\ last.op = "next_u64" => last.value # ZERO_SEED
    /\ \A seed \in GeneratorSeeds \cup KeygenSeeds :
          XorShift64_new(seed) # ZERO_SEED
    /\ rng # <<>> => prev_u64(next_u64(rng[1].state)) = rng[1].state
    /\ UndoneOnEveryBit

\* a generator made from the zero seed that has been through next_u64 and
\* fill_bytes calls
C26_Witness ==
    /\ rng # <<>>
    /\ rng[1].seed = ZERO_SEED
    /\ rng[1].calls = MaxCalls
    /\ last.op = "fill_bytes"
    /\ last.n > 8
    /\ rng[1].state # ZERO_SEED

\* the three length errors
LengthErrors ==
    {"InvalidSecretKeyLength", "InvalidPublicKeyLength", "InvalidSignatureLength"}

IsLengthError(result) == result[1] = "Err" /\ result[2] \in LengthErrors

\* C27: no length error through the public interface.  No sign or verify
\* call on keys returned by key generation (or cloned from them) and on
\* signatures returned by sign has returned a length error; and whatever
\* calls came before, sign on any key held with any message and verify on
\* any signature and public key held with any message would not return one.
C27_NoLengthErrors ==
    /\ last.op \in {"sign", "verify"} => ~IsLengthError(last.res)
    /\ last.op = "verify" => last.res[1] = "Ok"
    /\ \A message \in Messages :
          /\ \A i \in 1..Len(secret_keys) :
                ~IsLengthError(sign(message, secret_keys[i]).result)
          /\ \A j \in 1..Len(signatures), k \in 1..Len(public_keys) :
                ~IsLengthError(verify(message, signatures[j], public_keys[k]))

\* verify returned after a key and its clone both signed and a sign call
\* was refused
C27_Witness ==
    /\ last.op = "verify"
    /\ Len(signatures) = 2
    /\ \A i \in 1..Len(secret_keys) : secret_keys[i].used
    /\ last.res[1] = "Ok"

\* signatures of the first keypair with one element replaced, and checked
\* against the public keys of two keypairs
NextTamper ==
    \/ \E seed \in Seeds : KeypairWithSeed(seed, 2)
    \/ \E message \in Messages : Len(secret_keys) >= 1 /\ Sign(message, 1)
    \/ \E message \in Messages, j \in 1..Len(signatures), k \in 1..Len(public_keys) :
            Verify(message, j, k)
    \/ \E j \in 1..Len(signatures), position \in TamperPositions,
          kind \in TamperKinds :
            VerifyTampered(j, position, kind)

SpecTamper == Init /\ [][NextTamper]_vars

\* C28: tampering is detected.  verify on the message signed, the public
\* key of the signer and the signature with one element replaced by a
\* different value, lengths unchanged, returns Ok(false).  verify of a
\* signature with the message signed returns Ok(true) against a public key
\* with the elements of the signer's and Ok(false) against the public key
\* of a different keypair, one whose elements are not the signer's.
C28_TamperingDetected ==
    /\ (last.op = "verify_tampered" /\ last.differs) =>
          /\ last.sig_len = SIGNATURE_ELEMENTS
          /\ last.res = <<"Ok", FALSE>>
    /\ (last.op = "verify" /\ last.msg = signatures[last.sig].msg) =>
          last.res = <<"Ok", public_keys[last.pk].elements
                                = public_keys[signatures[last.sig].kp].elements>>

\* the last element of a signature replaced by the other secret element of
\* its pair, with a second keypair of other elements at hand
C28_Witness ==
    /\ last.op = "verify_tampered"
    /\ last.differs
    /\ last.kind = "pair"
    /\ last.position = SIGNATURE_ELEMENTS
    /\ Len(public_keys) = 2
    /\ public_keys[1].elements # public_keys[2].elements

\* bench_sign called once, with any message, any number of iterations up to
\* MaxIterations and any seed of bench_rng
NextBenchSign ==
    \/ \E message \in Messages, iterations \in 0..MaxIterations,
          seed \in BenchSeeds :
            BenchSignCall(message, iterations, seed)
    \/ BenchSignKeygen
    \/ BenchSignStart
    \/ BenchSignSign
    \/ BenchSignReturn

SpecBenchSign == Init /\ [][NextBenchSign]_vars

\* C29: the sign benchmark never reuses a key.  Once its keygen loop is
\* over bench_sign holds max(iterations, 1) secret keys, no two with the
\* same elements; in the sign loop the keys before the one the loop is at
\* have signed once each and the others are fresh; no sign call returns an
\* error; and bench_sign returns Ok with exactly iterations signatures
\* made.
C29_BenchSignFreshKeys ==
    (frame # <<>> /\ frame.fn = "bench_sign") =>
        /\ \A r \in 1..Len(frame.results) : frame.results[r] = <<"Ok">>
        /\ \A i \in 1..Len(secret_keys) :
              Cardinality(SignedBy(i)) <= 1
        /\ frame.pc = "keygen" =>
              /\ Len(secret_keys) <= Max(frame.iterations, 1)
              /\ \A i \in 1..Len(secret_keys) : ~secret_keys[i].used
        /\ frame.pc # "keygen" =>
              /\ Len(secret_keys) = Max(frame.iterations, 1)
              /\ \A i, j \in 1..Len(secret_keys) :
                    i # j => secret_keys[i].elements # secret_keys[j].elements
              /\ \A i \in 1..Len(secret_keys) :
                    /\ secret_keys[i].used <=> i <= frame.next
                    /\ Cardinality(SignedBy(i)) = IF i <= frame.next THEN 1 ELSE 0
              /\ Len(signatures) = frame.next
        /\ frame.pc = "returned" =>
              /\ frame.result = <<"Ok">>
              /\ Len(signatures) = frame.iterations
              /\ Len(frame.results) = frame.iterations

\* bench_sign returned after MaxIterations iterations, and with none
C29_Witness ==
    /\ frame # <<>>
    /\ frame.fn = "bench_sign"
    /\ frame.pc = "returned"
    /\ frame.iterations = MaxIterations
    /\ Len(signatures) = MaxIterations
    /\ Len(secret_keys) = MaxIterations

\* two threads that allocate and free blocks of 1 and 2 bytes and a thread
\* that calls reset_peak, interleaved
NextMemory ==
    \/ \E t \in AllocThreads, size \in 1..2 : TrackAlloc(t, size)
    \/ \E t \in AllocThreads : TrackAllocLoadBaseline(t)
    \/ \E t \in AllocThreads : TrackAllocLoadPeak(t)
    \/ \E t \in AllocThreads : TrackAllocWhile(t)
    \/ \E t \in AllocThreads : TrackDealloc(t)
    \/ ResetPeakLoad
    \/ ResetPeakStoreBaseline
    \/ ResetPeakStorePeak

SpecMemory == Init /\ [][NextMemory]_vars

\* no call of track_alloc or reset_peak is in progress
Quiescent ==
    /\ tracking.reset.pc = "idle"
    /\ \A t \in AllocThreads : tracking.alloc[t].pc = "idle"

\* C30 as stated: whenever no call is in progress, peak_bytes() is the
\* largest value, over the allocations completed since the most recent
\* reset_peak, of the bytes allocated minus the baseline that reset_peak
\* recorded, floored at 0; no allocation leaves a peak computed against an
\* earlier baseline.
C30_PeakSinceReset ==
    Quiescent => peak_bytes = tracking.expected

====
